---- MODULE Spec2Model ----
(***************************************************************************)
(* A model of adstxt_updater: the Destination Reconciler (AdsTxtUpdater)   *)
(* driven by its Coalescing Task Runner (SingleInstancePromise), and the   *)
(* Fetch Cache (AdsTxtCache).                                              *)
(*                                                                         *)
(*   Spec      one AdsTxtUpdater: runner, rebuild cycle, timer, watchers   *)
(*   LiveSpec  Spec with the fairness the event loop provides              *)
(*   CacheSpec one AdsTxtCache with overlapping fetchAdsTxt calls          *)
(***************************************************************************)
EXTENDS Integers, Sequences, FiniteSets, TLC

\* ------------------------------------------------------------------ bounds
\* Date.now() takes the values 0..MaxNow.
MaxNow == 1
\* External changes of the destination (modify, delete, delete parent).
MaxTamper == 1
\* Destination I/O errors other than NotFound that the filesystem raises.
MaxIOFail == 1
\* The counts of executions per busy period saturate at MaxCount.
MaxCount == 3
\* The counts of run() calls per execution saturate at MaxTrig.
MaxTrig == 2
\* fetchAdsTxt calls made on the cache.
MaxCalls == 3
\* In CacheSpec Date.now() takes the values 0..MaxTime.
MaxTime == 2

\* notifications a watcher buffers at a time
MaxBuffered == 1
\* In ContentSpec config.sources has up to MaxSources entries.
MaxSources == 3
\* In IntervalSpec config.updateInterval has up to MaxStr characters.
MaxStr == 3
\* In SupervisorSpec the configuration file is changed up to MaxChanges times.
MaxChanges == 1
\* In TransformSpec the fetched text has up to MaxText characters.
MaxText == 4
\* In TeardownSpec destructor() is called up to MaxDestructorCalls times.
MaxDestructorCalls == 2

VARIABLES
    \* SingleInstancePromise of #updateAdsTxtInstance
    runnerState,    \* "Idle" | "Running" | "RunningWithRerunPending"
    busyFailed,     \* an execution of the current busy period has failed
    waiters,        \* pending waitForFinishIfRunning() futures, by the state they were asked in
    \* executions of the wrapped work that are in flight
    cycles,         \* sequence of [pc, desired]
    \* the filesystem and the updater's watchers
    file,           \* content at #absoluteDestinationPath
    dirExists,      \* the destination's parent directory exists
    watchers,       \* paths with a live Deno.FsWatcher in #watchers
    events,         \* notifications buffered in those watchers
    opened,         \* how many open Deno.FsWatcher objects #watchers holds for each path
    \* environment
    now,            \* Date.now()
    fetchResults,   \* what fetchAdsTxt yields for each source url
    tampers,        \* external changes so far
    perturbed,      \* an external change has hit a destination that held the generated content
    ioFails,        \* I/O errors so far
    \* observations
    trigDuring,     \* run() calls received during the current execution
    prevTrig,       \* run() calls received during the previous execution of this busy period
    busyExecs,      \* executions started in the current busy period
    busyCoal,       \* executions of this busy period during which run() was called
    settled,        \* how the last waitForPromises() future settled
    failSeen,       \* a destination I/O error was raised in the current busy period
    \* the timer of setInterval and the sources behind the cache
    sourcesAge,     \* whether, and how long ago, the sources began to return something else
    \* AdsTxtCache
    cache,          \* #cachedAdsTxts: url -> CachedAdsTxt
    calls,          \* fetchAdsTxt calls waiting for the network
    clock,          \* Date.now() of the cache's process
    \* observations of the cache
    nCalls,         \* fetchAdsTxt calls made
    lastCall,       \* the arguments of the last call
    netCalls,       \* fetch(url) requests made
    nDone,          \* network exchanges ended
    lastDone,       \* the last network exchange that ended
    ret,            \* how the last call that ended returned
    \* one call of #getAdsTxtsContent
    cfgSources,     \* config.sources
    cfgOutcomes,    \* what fetchAdsTxt yields for each entry of config.sources
    settleOrder,    \* the entries whose fetch has settled, in the order they settled
    content,        \* what the call returned
    \* the interval parsing of the constructor
    updateInterval, \* config.updateInterval: [given, str], a string unless it is not given
    interval,       \* [done, period]: the period handed to setInterval, in units of 1000 ms
    \* ConfigWatcher
    configFile,     \* what is at #absoluteConfigPath: a document, "malformed" or "missing"
    loadState,      \* SingleInstancePromise of #loadConfigInstance
    configEvents,   \* kinds of the notifications buffered in #configWatcher
    updaters,       \* #updaters: the ids of the AdsTxtUpdaters held
    upd,            \* every AdsTxtUpdater whose watchers and timer are armed, by id
    destFile,       \* what each destination holds: the sources it was generated from
    generation,     \* configurations loaded so far
    changes,        \* changes of the configuration file so far
    \* observations of the ConfigWatcher
    loadedDoc,      \* the document of the last load that succeeded
    lastLoad,       \* how the last load ended
    \* one call of transformAdsTxt
    tContent,       \* the content argument
    tOptions,       \* the strip_variables option
    tOut,           \* what the call returned
    \* the fetch of one source in #getAdsTxtsContent
    result,         \* the object the awaited fetchAdsTxt call gave, and where the closure stands
    responded,      \* the text of the last 2xx response read to its end, for each url
    \* the `for await` loops of #createWatcher
    delivered,      \* the notification a loop has just taken from its watcher
    \* AdsTxtUpdater.destructor()
    destructed,     \* #destructed
    dtor,           \* where the first destructor() call stands: "none" | "waiting" | "ready" | "done" | "rejected"
    timerArmed,     \* the setInterval timer has not been cleared
    dtorCalls,      \* destructor() calls made so far
    dtorThrew,      \* a destructor() call has thrown "Updater is already destructed"
    \* ConfigWatcher.destructor()
    cwDestructed,   \* #destructed
    cwDtor,         \* where the first destructor() call stands: "none" | "waiting" | "tearing" | "done" | "rejected"
    cwAwaits,       \* the promises of its waitForPromises() that are pending: Loader and updater ids
    cwWatch,        \* #configWatcher is open
    loadBusyFailed, \* an execution of the loader's current busy period has failed
    loadReturns,    \* the loader's execution in flight was started after #destructed was set
    cwCalls,        \* destructor() calls made so far
    cwThrew         \* a destructor() call has thrown "Updater is already destructed"

runnerVars == <<runnerState, busyFailed, waiters>>
fsVars     == <<file, dirExists, watchers, events, opened>>
envVars    == <<now, fetchResults, tampers, perturbed, ioFails>>
obsVars    == <<trigDuring, prevTrig, busyExecs, busyCoal, settled, failSeen>>
timerVars  == <<sourcesAge>>
updaterVars == <<runnerVars, cycles, fsVars, envVars, obsVars, timerVars>>
cacheVars  == <<cache, calls, clock, nCalls, lastCall, netCalls, nDone, lastDone, ret>>
contentVars == <<cfgSources, cfgOutcomes, settleOrder, content>>
intervalVars == <<updateInterval, interval>>
superVars  == <<configFile, loadState, configEvents, updaters, upd, destFile, generation, changes,
                 loadedDoc, lastLoad>>
transformVars == <<tContent, tOptions, tOut>>
sourceVars == <<result, responded>>
watchVars  == <<delivered>>
teardownVars == <<destructed, dtor, timerArmed, dtorCalls, dtorThrew>>
superTeardownVars == <<cwDestructed, cwDtor, cwAwaits, cwWatch, loadBusyFailed, loadReturns, cwCalls, cwThrew>>
vars       == <<updaterVars, cacheVars, contentVars, intervalVars, superVars, transformVars, sourceVars, watchVars, teardownVars,
                 superTeardownVars>>

\* ----------------------------------------------------------- configuration
\* config.sources of the updater under test
Sources == <<"u1", "u2">>

Urls == {Sources[i] : i \in 1..Len(Sources)}

\* What AdsTxtCache.fetchAdsTxt gives the updater for one url:
\* {fresh: true}, {fresh: false} or a rejection.
Outcomes == {"fresh", "stale", "failed"}

\* the fetch results the updater runs with: the first source is fetched, the
\* second one fails with no cache entry
InitResults == {[u \in Urls |-> IF u = Sources[1] THEN "fresh" ELSE "failed"]}

\* ----------------------------------------------------------------- content
NoStamp == -1

\* currentContent = null: readTextFile threw NotFound
Absent == [kind |-> "absent", stamp |-> NoStamp, text |-> << >>]

\* what another party wrote into the destination
External == [kind |-> "external", stamp |-> NoStamp, text |-> << >>]

\* the empty file ensureFile creates
EmptyFile == [kind |-> "text", stamp |-> NoStamp, text |-> << >>]

\* result.content of a url
Body(u) == <<"content of ", u>>

RECURSIVE UrlList(_)
\* for (const url of urls) content += `# - ${url}`;
UrlList(urls) ==
    IF urls = << >> THEN << >>
    ELSE <<"# - ", Head(urls)>> \o UrlList(Tail(urls))

RECURSIVE Sections(_)
\* for (const result of successfulResults) { ... }
Sections(urls) ==
    IF urls = << >> THEN << >>
    ELSE <<"# Fetched from ", Head(urls), "\n">> \o Body(Head(urls)) \o <<"\n", "\n">>
         \o Sections(Tail(urls))

\* the promise of one source: try { result = await fetchAdsTxt } catch (e) { error = e },
\* with the catch left out
fetchSourceUncaught(url, outcome) == [url |-> url, outcome |-> outcome, thrown |-> outcome = "failed"]

\* the promise of one source: try { result = await fetchAdsTxt } catch (e) { error = e }
fetchSource(url, outcome) == [url |-> url, outcome |-> outcome, thrown |-> FALSE]

\* the results pushed in the order in which the fetches settle
InSettleOrder(srcs, outs, order) ==
    [k \in 1..Len(order) |-> fetchSource(srcs[order[k]], outs[order[k]])]

RECURSIVE StoreSettled(_, _, _, _)
\* the values array after the promises named in order have settled one by one
StoreSettled(values, srcs, outs, order) ==
    IF order = << >> THEN values
    ELSE StoreSettled([values EXCEPT ![Head(order)] = fetchSource(srcs[Head(order)], outs[Head(order)])],
                      srcs, outs, Tail(order))

\* results = await Promise.all(promises): every value is stored at the index of
\* its promise when that promise settles
PromiseAll(srcs, outs, order) ==
    StoreSettled([i \in 1..Len(srcs) |-> [url |-> srcs[i], outcome |-> "pending", thrown |-> FALSE]],
                 srcs, outs, order)

RECURSIVE UrlsOf(_)
\* the url of every result
UrlsOf(rs) == IF rs = << >> THEN << >> ELSE <<Head(rs).url>> \o UrlsOf(Tail(rs))

failedUrls(results) == UrlsOf(SelectSeq(results, LAMBDA r : r.outcome = "failed"))

failedButCachedUrls(results) == UrlsOf(SelectSeq(results, LAMBDA r : r.outcome = "stale"))

successfulResults(results) == UrlsOf(SelectSeq(results, LAMBDA r : r.outcome \in {"fresh", "stale"}))

\* #getAdsTxtsContent without the early return for an empty source list
AssembleNoEarlyReturn(results, t) ==
    [kind |-> "text", stamp |-> t,
     text |-> <<"# This file was generated on ", "<date>", "\n", "\n">> \o Sections(successfulResults(results))]

\* #getAdsTxtsContent from the results on: the generated ads.txt at time t
Assemble(results, t) ==
    IF \E i \in 1..Len(results) : results[i].thrown
    THEN [kind |-> "thrown", stamp |-> NoStamp, text |-> << >>]
    ELSE IF Len(results) = 0
    THEN [kind |-> "text", stamp |-> NoStamp,
          text |-> <<"# Warning: The configuration file contains no sources urls.", "\n">>]
    ELSE [kind |-> "text", stamp |-> t,
          text |->
            <<"# This file was generated on ", "<date>", "\n", "\n">>
            \o (IF Len(failedUrls(results)) > 0
                THEN <<"# Error: The following urls failed and are not included:", "\n">>
                     \o UrlList(failedUrls(results)) \o <<"\n", "\n">>
                ELSE << >>)
            \o (IF Len(failedButCachedUrls(results)) > 0
                THEN <<"# Warning: The following urls failed, but were cached and are still included:", "\n">>
                     \o UrlList(failedButCachedUrls(results)) \o <<"\n", "\n">>
                ELSE << >>)
            \o Sections(successfulResults(results))]

\* #getAdsTxtsContent of the updater under test for the fetch results fr at time t
getAdsTxtsContent(fr, t) ==
    Assemble(PromiseAll(Sources, [i \in 1..Len(Sources) |-> fr[Sources[i]]],
                        [i \in 1..Len(Sources) |-> i]), t)

\* f is what #getAdsTxtsContent returns at some time for the current fetch results
Generated(f) == \E t \in 0..MaxNow : f = getAdsTxtsContent(fetchResults, t)

\* ------------------------------------------------------------------- paths
\* the destination /dir/file, its parent and the root
Paths == {"file", "dir", "root"}

\* path.resolve(p, "..")
Parent(p) == IF p = "file" THEN "dir" ELSE "root"

RECURSIVE Ancestors(_, _)
\* the loop of #reloadWatchers: the path and every parent up to the root
Ancestors(p, acc) ==
    IF Parent(p) \in acc \cup {p} THEN acc \cup {p}
    ELSE Ancestors(Parent(p), acc \cup {p})

WatchPaths == Ancestors("file", {})

Exists(p, f, d) ==
    IF p = "root" THEN TRUE
    ELSE IF p = "dir" THEN d
    ELSE f.kind # "absent"

\* #reloadWatchers: close every watcher, then watch each path that exists
\* (Deno.watchFs throws NotFound for the others, which #createWatcher skips)
reloadWatchers(f, d) == {p \in WatchPaths : Exists(p, f, d)}

\* the watched paths and a path that is neither the destination nor one of
\* its ancestors
AllPaths == Paths \cup {"other"}

\* #watchers when it is empty
NoWatchers == [p \in AllPaths |-> 0]

\* #closeWatchers leaving the watchers open and in #watchers
closeWatchersKeeps(ws) == ws

\* #closeWatchers: every watcher is closed and #watchers cleared
closeWatchers(ws) == NoWatchers

\* #createWatcher up to its loop: Deno.watchFs(path, { recursive: false }) opens
\* one watcher on the path and adds it to #watchers, or throws NotFound
createWatcher(ws, p, f, d) == IF Exists(p, f, d) THEN [ws EXCEPT ![p] = @ + 1] ELSE ws

\* the loop of #reloadWatchers given up at the first path that does not exist:
\* no path is watched unless all of them exist
createWatchersAborting(ws, paths, f, d) ==
    IF \A p \in paths : Exists(p, f, d)
    THEN [p \in AllPaths |-> IF p \in paths THEN ws[p] + 1 ELSE ws[p]]
    ELSE ws

RECURSIVE createWatchers(_, _, _, _)
\* for (const path of paths) this.#createWatcher(path)
createWatchers(ws, paths, f, d) ==
    IF paths = {} THEN ws
    ELSE LET p == CHOOSE x \in paths : TRUE
         IN  createWatchers(createWatcher(ws, p, f, d), paths \ {p}, f, d)

\* #reloadWatchers on the watcher objects: #closeWatchers, then the loop, with
\* no await in between
rearm(ws, f, d) == createWatchers(closeWatchers(ws), WatchPaths, f, d)

\* The notifications a change of kind k at path p raises in the watchers ws:
\* the watcher of p reports p, and the watcher of p's directory reports p too.
Notify(ws, k, p) ==
    {[w |-> w, kind |-> k, paths |-> <<p>>] : w \in {x \in ws : x = p \/ (x = Parent(p) /\ x # p)}}

\* a filter that looks at the kind alone
PassesAnyPath(e) == ~(e.kind = "access")

\* #createWatcher, the filter of its `for await` loop:
\* if (e.kind == "access") continue; if (!e.paths.includes(path)) continue;
Passes(e) == ~(e.kind = "access") /\ \E k \in 1..Len(e.paths) : e.paths[k] = e.w

\* A notification the loop skips changes nothing but the watcher's buffer, so
\* the buffers hold only the notifications that pass the filter.
Buffered(es) == {e \in es : Passes(e)}

\* ------------------------------------------------------------------ runner
Inc(n) == IF n < MaxCount THEN n + 1 ELSE n

IncTrig(n) == IF n < MaxTrig THEN n + 1 ELSE n

Remove(s, i) == SubSeq(s, 1, i - 1) \o SubSeq(s, i + 1, Len(s))

\* the wrapped work without `if (this.#destructed) return;`
StartWorkUnchecked(cs) == Append(cs, [pc |-> "fetch", desired |-> Absent])

\* the wrapped work up to its first await: it has returned when the updater is
\* destructed, and else #getAdsTxtsContent() is pending
StartWork(cs) == Append(cs, [pc |-> IF destructed THEN "returned" ELSE "fetch", desired |-> Absent])

NoSettle == [regs |-> {}, at |-> "Idle", inflight |-> 0, outcome |-> "resolved"]

\* run() that forgets a call made while the work runs
runLosesTrigger ==
    /\ runnerState' = IF runnerState = "Idle" THEN "Running" ELSE runnerState
    /\ cycles' = IF runnerState = "Idle" THEN StartWork(cycles) ELSE cycles
    /\ IF cycles = << >>
       THEN /\ trigDuring' = 0
            /\ prevTrig' = 0
            /\ busyExecs' = 1
            /\ busyCoal' = 0
            /\ failSeen' = FALSE
            /\ settled' = NoSettle
       ELSE /\ trigDuring' = IncTrig(trigDuring)
            /\ busyCoal' = IF trigDuring = 0 THEN Inc(busyCoal) ELSE busyCoal
            /\ UNCHANGED <<prevTrig, busyExecs, failSeen, settled>>
    /\ UNCHANGED <<busyFailed, waiters>>

\* SingleInstancePromise.run()
run ==
    /\ runnerState' = IF runnerState = "Idle" THEN "Running" ELSE "RunningWithRerunPending"
    /\ cycles' = IF runnerState = "Idle" THEN StartWork(cycles) ELSE cycles
    /\ IF cycles = << >>
       THEN /\ trigDuring' = 0
            /\ prevTrig' = 0
            /\ busyExecs' = 1
            /\ busyCoal' = 0
            /\ failSeen' = FALSE
            /\ settled' = NoSettle
       ELSE /\ trigDuring' = IncTrig(trigDuring)
            /\ busyCoal' = IF trigDuring = 0 THEN Inc(busyCoal) ELSE busyCoal
            /\ UNCHANGED <<prevTrig, busyExecs, failSeen, settled>>
    /\ UNCHANGED <<busyFailed, waiters>>

\* The runner when execution i of the work ends (failed: it threw).
Complete(i, failed) ==
    IF runnerState = "RunningWithRerunPending"
    THEN /\ runnerState' = "Running"
         /\ cycles' = StartWork(Remove(cycles, i))
         /\ busyFailed' = (busyFailed \/ failed)
         /\ prevTrig' = trigDuring
         /\ trigDuring' = 0
         /\ busyExecs' = Inc(busyExecs)
         /\ UNCHANGED <<waiters, settled, busyCoal>>
    ELSE /\ runnerState' = "Idle"
         /\ cycles' = Remove(cycles, i)
         /\ busyFailed' = FALSE
         /\ waiters' = {}
         /\ settled' = IF waiters = {} THEN settled
                       ELSE [regs |-> waiters, at |-> runnerState', inflight |-> Len(cycles'),
                             outcome |-> IF busyFailed \/ failed THEN "rejected" ELSE "resolved"]
         /\ UNCHANGED <<trigDuring, prevTrig, busyExecs, busyCoal>>

\* SingleInstancePromise.waitForFinishIfRunning()
waitForFinishIfRunning ==
    IF runnerState = "Idle"
    THEN /\ settled' = [regs |-> {"Idle"}, at |-> runnerState, inflight |-> Len(cycles),
                        outcome |-> "resolved"]
         /\ waiters' = waiters
    ELSE /\ waiters' = waiters \cup {runnerState}
         /\ settled' = settled

\* ------------------------------------------------------------ AdsTxtUpdater
\* waitForPromises() returning a promise that is already resolved
waitForPromisesResolved ==
    /\ settled' = [regs |-> {runnerState}, at |-> runnerState, inflight |-> Len(cycles),
                   outcome |-> "resolved"]
    /\ waiters' = waiters

\* waitForPromises()
waitForPromises == waitForFinishIfRunning

WaitForPromises ==
    /\ waitForPromises
    /\ UNCHANGED <<runnerState, busyFailed, cycles, fsVars, envVars>>
    /\ UNCHANGED <<trigDuring, prevTrig, busyExecs, busyCoal, failSeen>>
    /\ UNCHANGED timerVars

\* the timer calling the work itself instead of the runner's run()
TimerTickDirect ==
    /\ cycles' = StartWork(cycles)
    /\ sourcesAge' = IF sourcesAge = "changedQuiet" THEN "elapsed" ELSE sourcesAge
    /\ UNCHANGED <<runnerVars, fsVars, envVars, obsVars>>

\* a timer whose callback does nothing
TimerTickIdle ==
    /\ sourcesAge' = IF sourcesAge = "changedQuiet" THEN "elapsed" ELSE sourcesAge
    /\ UNCHANGED <<runnerVars, cycles, fsVars, envVars, obsVars>>

\* setInterval(() => this.#updateAdsTxtInstance.run(), interval): the update
\* interval elapses and the callback runs
TimerTick ==
    /\ timerArmed
    /\ run
    /\ sourcesAge' = IF sourcesAge = "changedQuiet" THEN "elapsed" ELSE sourcesAge
    /\ UNCHANGED <<fsVars, envVars>>

\* the watcher loop calling the work itself instead of the runner's run()
DeliverDirect(e) ==
    /\ e \in events
    /\ events' = events \ {e}
    /\ cycles' = IF Passes(e) THEN StartWork(cycles) ELSE cycles
    /\ UNCHANGED <<runnerVars, obsVars, file, dirExists, watchers, opened, envVars>>
    /\ UNCHANGED timerVars

\* #createWatcher: one iteration of `for await (const e of watcher)`
Deliver(e) ==
    /\ e \in events
    /\ events' = events \ {e}
    /\ IF Passes(e) THEN run ELSE UNCHANGED <<runnerVars, cycles, obsVars>>
    /\ UNCHANGED <<file, dirExists, watchers, opened, envVars>>
    /\ UNCHANGED timerVars

\* the kinds of a Deno.FsEvent the watchers report here
Kinds == {"access", "create", "modify", "remove"}

\* the values of e.paths: no path, one path or two
PathLists == {<< >>} \cup {<<p>> : p \in AllPaths} \cup {<<p, q>> : p, q \in AllPaths}

NoEvent == [w |-> "", kind |-> "none", paths |-> << >>]

\* Deno's watcher of path w yields an event: its kind and its paths are what
\* the platform reports, and the paths are "frequently a different path from
\* the one we have set the watcher to"
Report(w, k, ps) ==
    /\ w \in watchers
    /\ Cardinality(events) < MaxBuffered
    /\ events' = events \cup {[w |-> w, kind |-> k, paths |-> ps]}
    /\ UNCHANGED <<runnerVars, cycles, obsVars, file, dirExists, watchers, opened, envVars>>
    /\ UNCHANGED timerVars

\* no loop has taken a notification in the last step
WatchRest == delivered = NoEvent

\* const desiredContent = await this.#getAdsTxtsContent();
FetchDone(i) ==
    /\ cycles[i].pc = "fetch"
    /\ cycles' = [cycles EXCEPT ![i] = [pc |-> "read", desired |-> getAdsTxtsContent(fetchResults, now)]]
    /\ UNCHANGED <<runnerVars, fsVars, envVars, obsVars>>
    /\ UNCHANGED timerVars

\* the read with NotFound taken for "nothing to do": a missing file is left missing
ReadDoneKeepsMissing(i) ==
    /\ cycles[i].pc = "read"
    /\ events' = events \cup Buffered(IF file.kind # "absent" THEN Notify(watchers, "access", "file") ELSE {})
    /\ IF file # cycles[i].desired /\ file.kind # "absent"
       THEN /\ cycles' = [cycles EXCEPT ![i].pc = "ensure"]
            /\ UNCHANGED <<runnerVars, obsVars>>
       ELSE /\ Complete(i, FALSE)
            /\ UNCHANGED failSeen
    /\ UNCHANGED <<file, dirExists, watchers, opened, envVars>>
    /\ UNCHANGED timerVars

\* currentContent = await Deno.readTextFile(...); if (currentContent != desiredContent)
ReadDone(i) ==
    /\ cycles[i].pc = "read"
    /\ events' = events \cup Buffered(IF file.kind # "absent" THEN Notify(watchers, "access", "file") ELSE {})
    /\ IF file # cycles[i].desired
       THEN /\ cycles' = [cycles EXCEPT ![i].pc = "ensure"]
            /\ UNCHANGED <<runnerVars, obsVars>>
       ELSE /\ Complete(i, FALSE)
            /\ UNCHANGED failSeen
    /\ UNCHANGED <<file, dirExists, watchers, opened, envVars>>
    /\ UNCHANGED timerVars

\* the catch block without its `throw e`: the error is taken for NotFound
ReadFailSwallowed(i) ==
    /\ cycles[i].pc = "read"
    /\ ioFails < MaxIOFail
    /\ ioFails' = ioFails + 1
    /\ failSeen' = TRUE
    /\ cycles' = [cycles EXCEPT ![i].pc = "ensure"]
    /\ UNCHANGED <<runnerVars, fsVars, now, fetchResults, tampers, perturbed>>
    /\ UNCHANGED <<trigDuring, prevTrig, busyExecs, busyCoal, settled>>
    /\ UNCHANGED timerVars

\* readTextFile throws an error that is not NotFound: throw e
ReadFail(i) ==
    /\ cycles[i].pc = "read"
    /\ ioFails < MaxIOFail
    /\ ioFails' = ioFails + 1
    /\ failSeen' = TRUE
    /\ Complete(i, TRUE)
    /\ UNCHANGED <<fsVars, now, fetchResults, tampers, perturbed>>
    /\ UNCHANGED timerVars

\* await ensureFile(path): creates the missing parent directory and an empty file
EnsureDone(i) ==
    /\ cycles[i].pc = "ensure"
    /\ cycles' = [cycles EXCEPT ![i].pc = "write"]
    /\ dirExists' = TRUE
    /\ file' = IF file.kind = "absent" THEN EmptyFile ELSE file
    /\ events' = events \cup Buffered(
                    (IF ~dirExists THEN Notify(watchers, "create", "dir") ELSE {})
                    \cup (IF file.kind = "absent" THEN Notify(watchers, "create", "file") ELSE {}))
    /\ UNCHANGED <<watchers, opened, runnerVars, envVars, obsVars>>
    /\ UNCHANGED timerVars

\* await Deno.writeTextFile(path, desiredContent): the content reaches the disk
WriteDone(i) ==
    /\ cycles[i].pc = "write"
    /\ dirExists
    /\ cycles' = [cycles EXCEPT ![i].pc = "written"]
    /\ file' = cycles[i].desired
    /\ events' = events \cup Buffered(Notify(watchers, IF file.kind = "absent" THEN "create" ELSE "modify", "file"))
    /\ UNCHANGED <<dirExists, watchers, opened, runnerVars, envVars, obsVars>>
    /\ UNCHANGED timerVars

\* ensureFile or writeTextFile rejects: an I/O error, or the parent directory
\* was deleted after ensureFile
WriteFail(i) ==
    /\ cycles[i].pc \in {"ensure", "write"}
    /\ \/ /\ ioFails < MaxIOFail
          /\ ioFails' = ioFails + 1
       \/ /\ cycles[i].pc = "write"
          /\ ~dirExists
          /\ ioFails' = ioFails
    /\ failSeen' = TRUE
    /\ Complete(i, TRUE)
    /\ UNCHANGED <<fsVars, now, fetchResults, tampers, perturbed>>
    /\ UNCHANGED timerVars

\* the work returning after the write without this.#reloadWatchers()
AfterWriteKeepsWatchers(i) ==
    /\ cycles[i].pc = "written"
    /\ Complete(i, FALSE)
    /\ UNCHANGED <<fsVars, envVars, failSeen>>
    /\ UNCHANGED timerVars

\* after the write: logger.info(...); this.#reloadWatchers(); and the work returns
AfterWrite(i) ==
    /\ cycles[i].pc = "written"
    /\ watchers' = reloadWatchers(file, dirExists)
    /\ opened' = rearm(opened, file, dirExists)
    /\ events' = {}
    /\ Complete(i, FALSE)
    /\ UNCHANGED <<file, dirExists, envVars, failSeen>>
    /\ UNCHANGED timerVars

\* ----------------------------------------------- AdsTxtUpdater.destructor
\* the work returned at its first statement because the updater is destructed
Returned(i) ==
    /\ cycles[i].pc = "returned"
    /\ Complete(i, FALSE)
    /\ UNCHANGED <<fsVars, envVars, failSeen>>
    /\ UNCHANGED timerVars

\* destructor() without the check of #destructed
destructorUnchecked ==
    /\ dtorCalls < MaxDestructorCalls
    /\ dtorCalls' = dtorCalls + 1
    /\ destructed' = TRUE
    /\ waitForPromises
    /\ dtor' = IF runnerState = "Idle" THEN "ready" ELSE "waiting"
    /\ UNCHANGED <<dtorThrew, timerArmed>>
    /\ UNCHANGED <<runnerState, busyFailed, cycles, fsVars, envVars>>
    /\ UNCHANGED <<trigDuring, prevTrig, busyExecs, busyCoal, failSeen>>
    /\ UNCHANGED timerVars

\* destructor() up to its await: throws when #destructed is set, else sets it
\* and awaits waitForPromises()
destructor ==
    /\ dtorCalls < MaxDestructorCalls
    /\ dtorCalls' = dtorCalls + 1
    /\ IF destructed
       THEN /\ dtorThrew' = TRUE
            /\ UNCHANGED <<destructed, dtor, timerArmed, updaterVars>>
       ELSE /\ destructed' = TRUE
            /\ waitForPromises
            /\ dtor' = IF runnerState = "Idle" THEN "ready" ELSE "waiting"
            /\ UNCHANGED <<dtorThrew, timerArmed>>
            /\ UNCHANGED <<runnerState, busyFailed, cycles, fsVars, envVars>>
            /\ UNCHANGED <<trigDuring, prevTrig, busyExecs, busyCoal, failSeen>>
            /\ UNCHANGED timerVars

\* destructor() after its await: this.#closeWatchers(); clearInterval(...)
DestructorResumes ==
    /\ dtor = "ready"
    /\ dtor' = "done"
    /\ watchers' = {}
    /\ opened' = closeWatchers(opened)
    /\ events' = {}
    /\ timerArmed' = FALSE
    /\ UNCHANGED <<destructed, dtorCalls, dtorThrew>>
    /\ UNCHANGED <<runnerVars, cycles, file, dirExists, envVars, obsVars, timerVars>>

\* the promise destructor() awaits settles when the runner goes idle: resolved,
\* or rejected when an execution of the busy period failed
Awaited ==
    dtor' = IF dtor = "waiting" /\ runnerState' = "Idle"
            THEN IF settled'.outcome = "rejected" THEN "rejected" ELSE "ready"
            ELSE dtor

\* a step of the updater or its environment while destructor() may be waiting
Meanwhile ==
    /\ Awaited
    /\ UNCHANGED <<destructed, timerArmed, dtorCalls, dtorThrew>>
    /\ UNCHANGED <<cacheVars, contentVars, intervalVars, superVars, transformVars, watchVars, sourceVars, superTeardownVars>>

\* no destructor() call has been made
TeardownRest ==
    /\ destructed = FALSE
    /\ dtor = "none"
    /\ timerArmed = TRUE
    /\ dtorCalls = 0
    /\ dtorThrew = FALSE

\* -------------------------------------------------------------- environment
\* another party writes the destination
ExternalModify ==
    /\ tampers < MaxTamper
    /\ dirExists
    /\ tampers' = tampers + 1
    /\ perturbed' = (perturbed \/ Generated(file))
    /\ file' = External
    /\ events' = events \cup Buffered(Notify(watchers, IF file.kind = "absent" THEN "create" ELSE "modify", "file"))
    /\ UNCHANGED <<dirExists, watchers, opened, runnerVars, cycles, now, fetchResults, ioFails, obsVars>>
    /\ UNCHANGED timerVars

\* another party deletes the destination
ExternalDelete ==
    /\ tampers < MaxTamper
    /\ file.kind # "absent"
    /\ tampers' = tampers + 1
    /\ perturbed' = (perturbed \/ Generated(file))
    /\ file' = Absent
    /\ events' = events \cup Buffered(Notify(watchers, "remove", "file"))
    /\ watchers' = watchers \ {"file"}
    /\ opened' = [opened EXCEPT !["file"] = 0]
    /\ UNCHANGED <<dirExists, runnerVars, cycles, now, fetchResults, ioFails, obsVars>>
    /\ UNCHANGED timerVars

\* another party deletes the destination's parent directory
ExternalDeleteDir ==
    /\ tampers < MaxTamper
    /\ dirExists
    /\ tampers' = tampers + 1
    /\ perturbed' = (perturbed \/ Generated(file))
    /\ file' = Absent
    /\ dirExists' = FALSE
    /\ events' = events \cup Buffered(
                    (IF file.kind # "absent" THEN Notify(watchers, "remove", "file") ELSE {})
                    \cup Notify(watchers, "remove", "dir"))
    /\ watchers' = watchers \ {"file", "dir"}
    /\ opened' = [opened EXCEPT !["file"] = 0, !["dir"] = 0]
    /\ UNCHANGED <<runnerVars, cycles, now, fetchResults, ioFails, obsVars>>
    /\ UNCHANGED timerVars

\* what fetchAdsTxt yields once the sources have changed: both are fetched
NewResults == [u \in Urls |-> "fresh"]

\* the sources begin to return something else; the change is quiet when the
\* updater is idle with no notification buffered, so that nothing but the
\* timer will start a cycle
SourcesChange ==
    /\ fetchResults \in InitResults
    /\ fetchResults' = NewResults
    /\ sourcesAge' = IF runnerState = "Idle" /\ events = {}
                      THEN "changedQuiet" ELSE "changedBusy"
    /\ UNCHANGED <<runnerVars, cycles, fsVars, now, tampers, perturbed, ioFails, obsVars>>

\* time passes
ClockTick ==
    /\ now < MaxNow
    /\ now' = now + 1
    /\ UNCHANGED <<runnerVars, cycles, fsVars, fetchResults, tampers, perturbed, ioFails, obsVars>>
    /\ UNCHANGED timerVars


\* -------------------------------------------------------------- AdsTxtCache
\* the cacheDurationMs the callers pass
TTLs == {1, 2}

\* what a 2xx response carries
Texts == {"c1", "c2"}

\* #cachedAdsTxts.get(url) is undefined
NoEntry == [has |-> FALSE, content |-> "", fetchTime |-> 0]

\* existing && Date.now() - existing.fetchTime < cacheDurationMs, with <= for <
IsFreshInclusive(existing, t, ttl) == existing.has /\ t - existing.fetchTime <= ttl

\* a cache that takes no entry for fresh
NeverFresh(existing, t, ttl) == FALSE

\* (existing || false) && Date.now() - existing.fetchTime < cacheDurationMs
IsFresh(existing, t, ttl) == existing.has /\ t - existing.fetchTime < ttl

NoRet == [url |-> "", kind |-> "none", fresh |-> FALSE, content |-> ""]

NoDone == [url |-> "", outcome |-> "none", text |-> "", issuedAt |-> 0, had |-> FALSE, prior |-> ""]

NoCall == [url |-> "", ttl |-> 0]

\* if (!existing) throw new Error(`Failed to fetch "${url}" ...`);
\* return { fresh, content: existing.content };
Return(url, existing, fresh) ==
    IF ~existing.has
    THEN [url |-> url, kind |-> "FetchFailed", fresh |-> FALSE, content |-> ""]
    ELSE [url |-> url, kind |-> "ok", fresh |-> fresh, content |-> existing.content]

\* the entry with the time at which the response arrived
StoredAtArrival(call) == [has |-> TRUE, content |-> call.text, fetchTime |-> clock]

\* the entry a successful response stores: the text with the time of the request
Stored(call) == [has |-> TRUE, content |-> call.text, fetchTime |-> call.fetchTime]

Done(call, outcome) ==
    [url |-> call.url, outcome |-> outcome, text |-> call.text, issuedAt |-> call.fetchTime,
     had |-> call.existing.has, prior |-> call.existing.content]

\* fetchAdsTxt(url, ttl) up to its first await: a fresh entry is returned, or
\* fetchTime is taken and fetch(url) is issued
fetchAdsTxt(url, ttl) ==
    /\ nCalls < MaxCalls
    /\ nCalls' = nCalls + 1
    /\ lastCall' = [url |-> url, ttl |-> ttl]
    /\ IF IsFresh(cache[url], clock, ttl)
       THEN /\ ret' = Return(url, cache[url], TRUE)
            /\ UNCHANGED <<calls, netCalls>>
       ELSE /\ calls' = Append(calls, [url |-> url, fetchTime |-> clock, existing |-> cache[url],
                                       pc |-> "fetch", text |-> ""])
            /\ netCalls' = netCalls + 1
            /\ UNCHANGED ret
    /\ UNCHANGED <<cache, clock, nDone, lastDone, updaterVars>>

\* fetch(url) resolves with response.ok: await response.text() is pending
FetchOk(i, c) ==
    /\ calls[i].pc = "fetch"
    /\ calls' = [calls EXCEPT ![i].pc = "text", ![i].text = c]
    /\ UNCHANGED <<cache, clock, nCalls, lastCall, netCalls, nDone, lastDone, ret, updaterVars>>

\* a response that is not ok taking the entry of its key out of the cache
FetchNotOkEvicts(i) ==
    /\ calls[i].pc = "fetch"
    /\ calls' = Remove(calls, i)
    /\ cache' = [cache EXCEPT ![calls[i].url] = NoEntry]
    /\ nDone' = nDone + 1
    /\ lastDone' = Done(calls[i], "status")
    /\ ret' = Return(calls[i].url, calls[i].existing, FALSE)
    /\ UNCHANGED <<clock, nCalls, lastCall, netCalls, updaterVars>>

\* fetch(url) resolves with a response that is not ok
FetchNotOk(i) ==
    /\ calls[i].pc = "fetch"
    /\ calls' = Remove(calls, i)
    /\ nDone' = nDone + 1
    /\ lastDone' = Done(calls[i], "status")
    /\ ret' = Return(calls[i].url, calls[i].existing, FALSE)
    /\ UNCHANGED <<cache, clock, nCalls, lastCall, netCalls, updaterVars>>

\* fetch(url) rejects with a TypeError: a network error
FetchTypeError(i) ==
    /\ calls[i].pc = "fetch"
    /\ calls' = Remove(calls, i)
    /\ nDone' = nDone + 1
    /\ lastDone' = Done(calls[i], "typeError")
    /\ ret' = Return(calls[i].url, calls[i].existing, FALSE)
    /\ UNCHANGED <<cache, clock, nCalls, lastCall, netCalls, updaterVars>>

\* fetch(url) rejects with another error: throw e
FetchOtherError(i) ==
    /\ calls[i].pc = "fetch"
    /\ calls' = Remove(calls, i)
    /\ nDone' = nDone + 1
    /\ lastDone' = Done(calls[i], "otherError")
    /\ ret' = [url |-> calls[i].url, kind |-> "rethrown", fresh |-> FALSE, content |-> ""]
    /\ UNCHANGED <<cache, clock, nCalls, lastCall, netCalls, updaterVars>>

\* await response.text() resolves: the entry is set and returned as fresh
TextDone(i) ==
    /\ calls[i].pc = "text"
    /\ calls' = Remove(calls, i)
    /\ cache' = [cache EXCEPT ![calls[i].url] = Stored(calls[i])]
    /\ nDone' = nDone + 1
    /\ lastDone' = Done(calls[i], "ok")
    /\ ret' = Return(calls[i].url, Stored(calls[i]), TRUE)
    /\ UNCHANGED <<clock, nCalls, lastCall, netCalls, updaterVars>>

\* await response.text() rejects: the connection broke while the body was read;
\* the await stands outside the try block, so the call rejects with that error
TextFail(i) ==
    /\ calls[i].pc = "text"
    /\ calls' = Remove(calls, i)
    /\ nDone' = nDone + 1
    /\ lastDone' = Done([calls[i] EXCEPT !.text = ""], "bodyError")
    /\ ret' = [url |-> calls[i].url, kind |-> "bodyError", fresh |-> FALSE, content |-> ""]
    /\ UNCHANGED <<cache, clock, nCalls, lastCall, netCalls, updaterVars>>

\* time passes
CacheTick ==
    /\ clock < MaxTime
    /\ clock' = clock + 1
    /\ UNCHANGED <<cache, calls, nCalls, lastCall, netCalls, nDone, lastDone, ret, updaterVars>>

\* new AdsTxtCache()
CacheStart ==
    /\ cache = [u \in Urls |-> NoEntry]
    /\ calls = << >>
    /\ clock = 0
    /\ nCalls = 0
    /\ lastCall = NoCall
    /\ netCalls = 0
    /\ nDone = 0
    /\ lastDone = NoDone
    /\ ret = NoRet

\* ------------------------------------------------------- #getAdsTxtsContent
\* the urls a configuration can name
SourcePool == {"a", "b", "c"}

NoContent == [kind |-> "none", stamp |-> NoStamp, text |-> << >>]

\* the fetch of entry i settles
Settle(i) ==
    /\ content = NoContent
    /\ \A k \in 1..Len(settleOrder) : settleOrder[k] # i
    /\ settleOrder' = Append(settleOrder, i)
    /\ UNCHANGED <<cfgSources, cfgOutcomes, content>>

\* all fetches have settled: the content is built and returned
AssembleContent ==
    /\ content = NoContent
    /\ Len(settleOrder) = Len(cfgSources)
    /\ content' = Assemble(PromiseAll(cfgSources, cfgOutcomes, settleOrder), 0)
    /\ UNCHANGED <<cfgSources, cfgOutcomes, settleOrder>>

\* a call of #getAdsTxtsContent for some configuration and some fetch results
ContentStart ==
    /\ \E n \in 0..MaxSources :
         /\ cfgSources \in [1..n -> SourcePool]
         /\ cfgOutcomes \in [1..n -> Outcomes]
    /\ settleOrder = << >>
    /\ content = NoContent

\* no call of #getAdsTxtsContent is looked at
ContentRest ==
    /\ cfgSources = << >>
    /\ cfgOutcomes = << >>
    /\ settleOrder = << >>
    /\ content = NoContent


\* --------------------------------------------------------- update interval
\* the characters an interval string is made of here; "x" and "-" stand for
\* every character that is neither a digit nor one of the units
Chars == {"0", "2", "3", "s", "m", "h", "d", "x", "-"}

\* \d
IsDigit(c) == c \in {"0", "1", "2", "3", "4", "5", "6", "7", "8", "9"}

\* [smhd]
IsUnit(c) == c \in {"s", "m", "h", "d"}

DigitVal(c) ==
    CASE c = "0" -> 0 [] c = "1" -> 1 [] c = "2" -> 2 [] c = "3" -> 3 [] c = "4" -> 4
      [] c = "5" -> 5 [] c = "6" -> 6 [] c = "7" -> 7 [] c = "8" -> 8 [] c = "9" -> 9

RECURSIVE parseInt(_, _)
\* parseInt(digits, 10), acc being the value of the digits read so far
parseInt(digits, acc) ==
    IF digits = << >> THEN acc
    ELSE parseInt(Tail(digits), 10 * acc + DigitVal(Head(digits)))

\* every unit counted as seconds
UnitSecondsFlat(unit) == 1

\* amount *= 1000, 60 * 1000, 60 * 60 * 1000 or 24 * 60 * 60 * 1000, in units of 1000
UnitSeconds(unit) ==
    CASE unit = "s" -> 1
      [] unit = "m" -> 60
      [] unit = "h" -> 60 * 60
      [] unit = "d" -> 24 * 60 * 60

\* the end of the run of digits of str that starts at index i
RECURSIVE DigitsEnd(_, _)
DigitsEnd(str, i) ==
    IF i < Len(str) /\ IsDigit(str[i + 1]) THEN DigitsEnd(str, i + 1) ELSE i

\* intervalStr.match(/(?<amount>\d+)(?<unit>[smhd])/): the leftmost index at
\* which a run of digits is followed by a unit, 0 when there is no match
Match(str) ==
    LET starts == {i \in 1..Len(str) :
                      /\ IsDigit(str[i])
                      /\ DigitsEnd(str, i) < Len(str)
                      /\ IsUnit(str[DigitsEnd(str, i) + 1])}
    IN IF starts = {} THEN 0 ELSE CHOOSE i \in starts : \A j \in starts : i <= j

\* lines 80-97: the interval in units of 1000 ms for config.updateInterval
parseInterval(str) ==
    LET intervalStr == IF ~str.given \/ str.str = << >> THEN <<"2", "4", "h">> ELSE str.str
        at == Match(intervalStr)
    IN IF at = 0 THEN 24 * 60 * 60
       ELSE parseInt(SubSeq(intervalStr, at, DigitsEnd(intervalStr, at)), 0)
                * UnitSeconds(intervalStr[DigitsEnd(intervalStr, at) + 1])

\* the constructor computes the interval
ParseInterval ==
    /\ ~interval.done
    /\ interval' = [done |-> TRUE, period |-> parseInterval(updateInterval)]
    /\ UNCHANGED updateInterval

\* a configuration with some updateInterval, or none
IntervalStart ==
    /\ updateInterval \in {[given |-> FALSE, str |-> << >>]}
                          \cup {[given |-> TRUE, str |-> x] : x \in UNION {[1..n -> Chars] : n \in 0..MaxStr}}
    /\ interval = [done |-> FALSE, period |-> 0]

\* the interval parsing is not looked at
IntervalRest ==
    /\ updateInterval = [given |-> FALSE, str |-> << >>]
    /\ interval = [done |-> FALSE, period |-> 0]

\* ---------------------------------------------------------- transformAdsTxt
\* the characters a fetched text is made of here: "A" and "B" stand for every
\* character that is neither white space nor one of the others
TChars == {"A", "B", "=", " ", "#", "\n"}

\* the variable names a strip_variables list holds here
TNames == {<<"A">>, <<"B">>}

\* the values of the strip_variables option: absent, false, true or a list
TOptions ==
    {[kind |-> k, names |-> << >>] : k \in {"absent", "false", "true"}}
    \cup {[kind |-> "list", names |-> l] : l \in {<< >>, <<<<"A">>>>, <<<<"B">>>>, <<<<"A">>, <<"B">>>>}}

\* \s of the regular expression
IsSpace(c) == c \in {" ", "\n"}

RECURSIVE split(_)
\* content.split("\n")
split(s) ==
    IF \A k \in 1..Len(s) : s[k] # "\n" THEN <<s>>
    ELSE LET p == CHOOSE k \in 1..Len(s) : s[k] = "\n" /\ \A j \in 1..(k - 1) : s[j] # "\n"
         IN  <<SubSeq(s, 1, p - 1)>> \o split(SubSeq(s, p + 1, Len(s)))

RECURSIVE join(_)
\* filteredLines.join("\n")
join(ls) ==
    IF ls = << >> THEN << >>
    ELSE IF Len(ls) = 1 THEN ls[1]
    ELSE ls[1] \o <<"\n">> \o join(Tail(ls))

\* line.startsWith("#")
startsWith(line, c) == Len(line) > 0 /\ line[1] = c

\* the lengths p at which /^(?<key>\S+)\s?=/ can end its key group: the first p
\* characters are not white space and are followed by "=", or by one white
\* space character and "="
KeyEnds(line) ==
    {p \in 1..Len(line) :
        /\ \A k \in 1..p : ~IsSpace(line[k])
        /\ \/ p + 1 <= Len(line) /\ line[p + 1] = "="
           \/ p + 2 <= Len(line) /\ IsSpace(line[p + 1]) /\ line[p + 2] = "="}

\* the set's greatest element
Greatest(S) == CHOOSE p \in S : \A q \in S : q <= p

\* the set's least element
Least(S) == CHOOSE p \in S : \A q \in S : p <= q

\* a key group that gives back as little as it can: the key ends before the
\* first "=" that can end it
matchLazy(line) ==
    IF KeyEnds(line) = {} THEN [matched |-> FALSE, key |-> << >>]
    ELSE [matched |-> TRUE, key |-> SubSeq(line, 1, Least(KeyEnds(line)))]

\* line.match(/^(?<key>\S+)\s?=/): \S+ is greedy, so the key group is the longest
\* prefix the rest of the pattern can follow
match(line) ==
    IF KeyEnds(line) = {} THEN [matched |-> FALSE, key |-> << >>]
    ELSE [matched |-> TRUE, key |-> SubSeq(line, 1, Greatest(KeyEnds(line)))]

\* removeVariables.includes(key)
includes(list, x) == \E k \in 1..Len(list) : list[k] = x

\* the callback of lines.filter: TRUE when the line is kept
keeps(line, removeVariables) ==
    IF startsWith(line, "#") THEN TRUE
    ELSE IF ~match(line).matched THEN TRUE
    ELSE IF Len(removeVariables) = 0 THEN FALSE
    ELSE IF match(line).key = << >> THEN TRUE
    ELSE IF includes(removeVariables, match(line).key) THEN FALSE
    ELSE TRUE

stripVariables(text, removeVariables) ==
    join(SelectSeq(split(text), LAMBDA line : keeps(line, removeVariables)))

\* transformAdsTxt(content, { strip_variables }); an array, the empty one too,
\* is truthy
transformAdsTxt(text, options) ==
    IF options.kind \in {"true", "list"}
    THEN stripVariables(text, IF options.kind = "list" THEN options.names ELSE << >>)
    ELSE text

NoOut == [done |-> FALSE, text |-> << >>]

\* the call returns
Transform ==
    /\ ~tOut.done
    /\ tOut' = [done |-> TRUE, text |-> transformAdsTxt(tContent, tOptions)]
    /\ UNCHANGED <<tContent, tOptions>>

\* a call of transformAdsTxt with some text and some option
TransformStart ==
    /\ tContent \in UNION {[1..n -> TChars] : n \in 0..MaxText}
    /\ tOptions \in TOptions
    /\ tOut = NoOut

\* no call of transformAdsTxt is looked at
TransformRest ==
    /\ tContent = << >>
    /\ tOptions = [kind |-> "absent", names |-> << >>]
    /\ tOut = NoOut

\* ------------------------------------- one source of #getAdsTxtsContent
\* async fetchAdsTxt(url, cacheDurationMs = 60 * 60 * 1000)
cacheDurationMs == 60 * 60 * 1000

\* the clock of the cache counts half hours
msPerTick == 30 * 60 * 1000

\* the periods, in clock ticks, the destinations' updateInterval can give
Periods == {1, 3}

\* a call that passes the destination's period as its cacheDurationMs
periodAsDuration(period) == period

\* fetchAdsTxt(config.source): no second argument, so the default applies
\* whatever the period of the updater is
durationArgument(period) == cacheDurationMs \div msPerTick

\* the bodies of the 2xx responses
Bodies == {<<"A", "=", "B">>, <<"#", "\n", "B", "=", "A">>}

\* config.transform: not given, or an object with some strip_variables
Transforms ==
    {[given |-> FALSE, options |-> [kind |-> "absent", names |-> << >>]]}
    \cup {[given |-> TRUE, options |-> o] : o \in TOptions}

\* a call that returns the entry the cache holds
returnsEntry(existing) == existing.has

\* return { fresh, content: existing.content }: the object returned is a new
\* one, never the entry the cache holds
returnsStored(existing) == FALSE

NoResult == [pc |-> "none", url |-> "", kind |-> "none", content |-> "", stored |-> FALSE]

\* result = await this.#adsTxtCache.fetchAdsTxt(config.source) settles: result,
\* or error, is assigned and the rest of the closure is queued
Settles(existing) ==
    /\ result.pc # "returned"
    /\ result' = [pc |-> "returned", url |-> ret'.url, kind |-> ret'.kind, content |-> ret'.content,
                  stored |-> ret'.kind = "ok" /\ returnsStored(existing)]

\* the closure of one source begins: fetchAdsTxt is called and, when the entry
\* is fresh, returns without a request
SourceFetch(u, period) ==
    /\ fetchAdsTxt(u, durationArgument(period))
    /\ IF calls' = calls THEN Settles(cache[u]) ELSE UNCHANGED result
    /\ UNCHANGED responded

\* a request of the closure's call ends without a text
SourceFails(i) ==
    /\ \/ FetchNotOk(i)
       \/ FetchTypeError(i)
       \/ FetchOtherError(i)
       \/ TextFail(i)
    /\ Settles(calls[i].existing)
    /\ UNCHANGED responded

\* the text of a 2xx response has been read
SourceText(i) ==
    /\ TextDone(i)
    /\ Settles(Stored(calls[i]))
    /\ responded' = [responded EXCEPT ![calls[i].url] = calls[i].text]

\* if (result && config.transform) result.content = transformAdsTxt(...);
\* return { url, result, error }: the assignment writes to the object that
\* fetchAdsTxt returned
SourceReturn(transform) ==
    /\ result.pc = "returned"
    /\ LET applies == result.kind = "ok" /\ transform.given
           text    == transformAdsTxt(result.content, transform.options)
       IN  /\ result' = [result EXCEPT !.pc = "done", !.content = IF applies THEN text ELSE @]
           /\ cache' = IF applies /\ result.stored
                       THEN [cache EXCEPT ![result.url].content = text]
                       ELSE cache
    /\ UNCHANGED <<calls, clock, nCalls, lastCall, netCalls, nDone, lastDone, ret, responded, updaterVars>>

\* no closure has run
SourceRest ==
    /\ result = NoResult
    /\ responded = [u \in Urls |-> << >>]

\* ------------------------------------------------------------ ConfigWatcher
\* the configuration documents: A has one entry, B has two
DocA == <<[destination |-> "f", sources |-> "old"]>>

DocB == <<[destination |-> "f", sources |-> "new"], [destination |-> "g", sources |-> "new"]>>

DocNames == {"A", "B"}

Doc(name) == IF name = "A" THEN DocA ELSE DocB

Dests == {"f", "g"}

\* SingleInstancePromise.run() on a runner in state st
runState(st) == IF st = "Idle" THEN "Running" ELSE "RunningWithRerunPending"

\* an execution of a runner in state st completes
doneState(st) == IF st = "RunningWithRerunPending" THEN "Running" ELSE "Idle"

\* a watcher loop that passes every notification on
HandlesAll(kind) == TRUE

\* #watchConfig: if (e.kind != "access") { this.#loadConfigInstance.run(); }
ConfigHandles(kind) == kind # "access"

\* #createWatcher: if (e.kind == "access") continue;
UpdaterHandles(kind) == ~(kind = "access")

\* new AdsTxtUpdater(path, config, cache): run() is called and the watchers are armed
newUpdater(config) ==
    [destination |-> config.destination, sources |-> config.sources, destructed |-> FALSE,
     runner |-> "Running", pc |-> "read", pending |-> {}]

\* the updaters after run() was called on updater id
Triggered(id) ==
    IF upd[id].runner = "Idle"
    THEN [upd EXCEPT ![id].runner = "Running", ![id].pc = "read"]
    ELSE [upd EXCEPT ![id].runner = "RunningWithRerunPending"]

\* the updaters u after the watchers on destination d were told of a kind-k event
Told(u, d, k) ==
    [id \in DOMAIN u |-> IF u[id].destination = d /\ ~u[id].destructed
                         THEN [u[id] EXCEPT !.pending = u[id].pending \cup {k}]
                         ELSE u[id]]

\* destructor(): this.#destructed = true. From then on run() starts work that
\* returns at once, so of a destructed updater only the cycle in flight is
\* followed, until it has drained and the watchers are closed
Destructed(r) == [r EXCEPT !.destructed = TRUE, !.runner = "Running", !.pending = {}]

\* the updaters u without the ones in gone
Without(u, gone) == [id \in DOMAIN u \ gone |-> u[id]]

\* the work of updater id returns: a pending rerun starts the work again, and a
\* destructed updater, whose work returns at once, closes its watchers and
\* clears its timer when its runner is idle. An idle updater's pc tells how its
\* last cycle ended: "unchanged" after the comparison, "written" after the write
Finished(u, id, how) ==
    IF u[id].destructed THEN Without(u, {id})
    ELSE IF u[id].runner = "RunningWithRerunPending"
    THEN [u EXCEPT ![id].runner = "Running", ![id].pc = "read"]
    ELSE [u EXCEPT ![id].runner = "Idle", ![id].pc = how]

superObs == <<loadedDoc, lastLoad>>

\* another party rewrites, breaks or removes the configuration file; the watcher
\* is told of the removal or of the write
ConfigChange(v) ==
    /\ changes < MaxChanges
    /\ v # configFile
    /\ changes' = changes + 1
    /\ configFile' = v
    /\ configEvents' = IF cwWatch THEN configEvents \cup {IF v = "missing" THEN "remove" ELSE "modify"}
                        ELSE configEvents
    /\ UNCHANGED <<loadState, updaters, upd, destFile, generation, superObs>>

\* #watchConfig: for await (const e of this.#configWatcher)
ConfigDeliver(k) ==
    /\ k \in configEvents
    /\ configEvents' = configEvents \ {k}
    /\ loadState' = IF ConfigHandles(k) THEN runState(loadState) ELSE loadState
    /\ UNCHANGED <<configFile, updaters, upd, destFile, generation, changes, loadedDoc, lastLoad>>

\* readTextFile of the configuration rejects: the load fails before anything is touched
LoadReadFails ==
    /\ loadState # "Idle"
    /\ ~loadReturns
    /\ configFile = "missing"
    /\ loadState' = doneState(loadState)
    /\ lastLoad' = "readFailed"
    /\ UNCHANGED <<configFile, configEvents, updaters, upd, destFile, generation, changes, loadedDoc>>

\* the file is read but yaml.parse throws, with the updaters destructed before the parse
LoadParseFailsLate ==
    /\ loadState # "Idle"
    /\ ~loadReturns
    /\ configFile = "malformed"
    /\ loadState' = doneState(loadState)
    /\ configEvents' = configEvents \cup {"access"}
    /\ lastLoad' = "parseFailed"
    /\ updaters' = {}
    /\ upd' = Without([id \in DOMAIN upd |-> Destructed(upd[id])],
                      {id \in DOMAIN upd : id \in updaters /\ upd[id].runner = "Idle"})
    /\ UNCHANGED <<configFile, destFile, generation, changes, loadedDoc>>

\* the file is read but yaml.parse throws: the load fails before anything is touched
LoadParseFails ==
    /\ loadState # "Idle"
    /\ ~loadReturns
    /\ configFile = "malformed"
    /\ loadState' = doneState(loadState)
    /\ configEvents' = configEvents \cup {"access"}
    /\ lastLoad' = "parseFailed"
    /\ UNCHANGED <<configFile, updaters, upd, destFile, generation, changes, loadedDoc>>

\* #updaters that keeps the destructed updaters
Accumulated(held, made) == held \cup made

\* this.#updaters.clear(); ... this.#updaters.add(updater) for every entry
Replaced(held, made) == made

\* the file is read and parsed; with no await in between every held updater is
\* destructed, #updaters is cleared and an updater is made for every entry.
\* destructor() sets #destructed and then waits for its runner: an idle updater
\* closes its watchers at once, a busy one when its cycle has drained
LoadDone ==
    /\ loadState # "Idle"
    /\ ~loadReturns
    /\ configFile \in DocNames
    /\ loadState' = doneState(loadState)
    /\ configEvents' = configEvents \cup {"access"}
    /\ lastLoad' = "loaded"
    /\ loadedDoc' = configFile
    /\ generation' = generation + 1
    /\ LET configs == Doc(configFile)
           made == {<<generation + 1, k>> : k \in 1..Len(configs)}
           old == Without([id \in DOMAIN upd |-> Destructed(upd[id])],
                          {id \in DOMAIN upd : id \in updaters /\ upd[id].runner = "Idle"})
       IN /\ updaters' = Replaced(updaters, made)
          /\ upd' = [id \in DOMAIN old \cup made |->
                        IF id \in made THEN newUpdater(configs[id[2]]) ELSE old[id]]
    /\ UNCHANGED <<configFile, destFile, changes>>

\* an entry for which `new AdsTxtUpdater(path, config, cache)` throws at its
\* first statement: null (what yaml.parse gives for an empty document), whose
\* config.destination cannot be read, or an entry without a destination, which
\* path.resolve does not accept
NoDestination == "undefined"

\* a document whose second entry has no destination, and the empty document,
\* which `parsed = [parsed]` turns into the one entry null
DocC == <<[destination |-> "g", sources |-> "new"], [destination |-> NoDestination, sources |-> "new"]>>

DocEmpty == <<[destination |-> NoDestination, sources |-> "none"]>>

BrokenDocNames == {"C", "empty"}

BrokenDoc(name) == IF name = "C" THEN DocC ELSE DocEmpty

\* the entries of configs before the first one whose constructor throws
Constructed(configs) ==
    {k \in 1..Len(configs) : \A j \in 1..k : configs[j].destination # NoDestination}

\* the file is read and parsed; every held updater is destructed and #updaters
\* is cleared; the entries are constructed and added one by one until the
\* constructor of one throws, which ends the load with a failure. generation
\* counts the loads that came this far, so that no id is given twice
LoadConstructFails ==
    /\ loadState # "Idle"
    /\ ~loadReturns
    /\ configFile \in BrokenDocNames
    /\ loadState' = doneState(loadState)
    /\ configEvents' = configEvents \cup {"access"}
    /\ lastLoad' = "constructFailed"
    /\ generation' = generation + 1
    /\ LET configs == BrokenDoc(configFile)
           made == {<<generation + 1, k>> : k \in Constructed(configs)}
           old == Without([id \in DOMAIN upd |-> Destructed(upd[id])],
                          {id \in DOMAIN upd : id \in updaters /\ upd[id].runner = "Idle"})
       IN /\ updaters' = Replaced(updaters, made)
          /\ upd' = [id \in DOMAIN old \cup made |->
                        IF id \in made THEN newUpdater(configs[id[2]]) ELSE old[id]]
    /\ UNCHANGED <<configFile, destFile, changes, loadedDoc>>

\* the watcher loop of updater id takes a notification
UpdaterDeliver(id, k) ==
    /\ k \in upd[id].pending
    /\ upd' = [(IF UpdaterHandles(k) THEN Triggered(id) ELSE upd)
                    EXCEPT ![id].pending = upd[id].pending \ {k}]
    /\ UNCHANGED <<configFile, loadState, configEvents, updaters, destFile, generation, changes, loadedDoc, lastLoad>>

\* the timer of updater id fires
UpdaterTimer(id) ==
    /\ id \in updaters
    /\ ~upd[id].destructed
    /\ upd' = Triggered(id)
    /\ UNCHANGED <<configFile, loadState, configEvents, updaters, destFile, generation, changes, superObs>>

\* the cycle of updater id has its content, reads the destination and compares
UpdaterRead(id) ==
    /\ upd[id].pc = "read"
    /\ LET d == upd[id].destination
           told == IF destFile[d] = "none" THEN upd ELSE Told(upd, d, "access")
       IN upd' = IF destFile[d] # upd[id].sources
                 THEN [told EXCEPT ![id].pc = "write"]
                 ELSE Finished(told, id, "unchanged")
    /\ UNCHANGED <<configFile, loadState, configEvents, updaters, destFile, generation, changes, superObs>>

\* the cycle of updater id writes the destination; the watchers on it are told
\* (of a creation or a modification: a kind other than access)
UpdaterWrite(id) ==
    /\ upd[id].pc = "write"
    /\ LET d == upd[id].destination
       IN /\ destFile' = [destFile EXCEPT ![d] = upd[id].sources]
          /\ upd' = [Told(upd, d, "modify") EXCEPT ![id].pc = "rearm"]
    /\ UNCHANGED <<configFile, loadState, configEvents, updaters, generation, changes, superObs>>

\* #reloadWatchers after the write: the old watchers are closed with what they
\* had buffered, and the work returns
UpdaterRearm(id) ==
    /\ upd[id].pc = "rearm"
    /\ upd' = Finished([upd EXCEPT ![id].pending = {}], id, "written")
    /\ UNCHANGED <<configFile, loadState, configEvents, updaters, destFile, generation, changes, superObs>>

\* ----------------------------------------------- ConfigWatcher.destructor
\* the promise of #loadConfigInstance.waitForFinishIfRunning() among the
\* promises destructor() awaits; the others go by the id of their updater
Loader == <<0, 0>>

\* the loader's work returns at its first statement: if (this.#destructed) return;
LoadReturns ==
    /\ loadState # "Idle"
    /\ loadReturns
    /\ loadState' = doneState(loadState)
    /\ UNCHANGED <<configFile, configEvents, updaters, upd, destFile, generation, changes, loadedDoc, lastLoad>>

\* waitForPromises(): the loader's promise when it is running, the promise of
\* every held updater whose runner is running, and the promises of the
\* destructor() calls made by earlier loads that are still pending
Awaiting ==
    (IF loadState # "Idle" THEN {Loader} ELSE {}) \cup {id \in DOMAIN upd : upd[id].runner # "Idle"}

\* ConfigWatcher.destructor() without the check of #destructed
ConfigWatcherDestructorUnchecked ==
    /\ cwCalls < MaxDestructorCalls
    /\ cwCalls' = cwCalls + 1
    /\ cwDestructed' = TRUE
    /\ cwAwaits' = Awaiting
    /\ cwDtor' = IF Awaiting = {} THEN "tearing" ELSE "waiting"
    /\ UNCHANGED <<superVars, cwWatch, loadBusyFailed, loadReturns, cwThrew>>

\* ConfigWatcher.destructor() up to its first await: throws when #destructed is
\* set, else sets it and awaits waitForPromises()
ConfigWatcherDestructor ==
    /\ cwCalls < MaxDestructorCalls
    /\ cwCalls' = cwCalls + 1
    /\ IF cwDestructed
       THEN /\ cwThrew' = TRUE
            /\ UNCHANGED <<superVars, cwDestructed, cwDtor, cwAwaits, cwWatch, loadBusyFailed, loadReturns>>
       ELSE /\ cwDestructed' = TRUE
            /\ cwAwaits' = Awaiting
            /\ cwDtor' = IF Awaiting = {} THEN "tearing" ELSE "waiting"
            /\ UNCHANGED <<superVars, cwWatch, loadBusyFailed, loadReturns, cwThrew>>

\* for (const updater of this.#updaters) { await updater.destructor(); }: the
\* next held updater is destructed once the one before it has closed its
\* watchers; an idle updater closes them at once
TearDownNext ==
    /\ cwDtor = "tearing"
    /\ \A id \in updaters \cap DOMAIN upd : ~upd[id].destructed
    /\ \E id \in updaters \cap DOMAIN upd :
          /\ \A other \in updaters \cap DOMAIN upd : id[2] <= other[2]
          /\ upd' = IF upd[id].runner = "Idle" THEN Without(upd, {id})
                    ELSE [upd EXCEPT ![id] = Destructed(upd[id])]
    /\ UNCHANGED <<configFile, loadState, configEvents, updaters, destFile, generation, changes, loadedDoc, lastLoad>>
    /\ UNCHANGED superTeardownVars

\* this.#updaters.clear(); this.#configWatcher?.close(); and destructor() returns
TearDownDone ==
    /\ cwDtor = "tearing"
    /\ updaters \cap DOMAIN upd = {}
    /\ updaters' = {}
    /\ cwWatch' = FALSE
    /\ configEvents' = {}
    /\ cwDtor' = "done"
    /\ UNCHANGED <<configFile, loadState, upd, destFile, generation, changes, loadedDoc, lastLoad>>
    /\ UNCHANGED <<cwDestructed, cwAwaits, loadBusyFailed, loadReturns, cwCalls, cwThrew>>

\* the runner of the loader starts an execution in this step
LoaderStarts ==
    \/ loadState = "Idle" /\ loadState' # "Idle"
    \/ loadState = "RunningWithRerunPending" /\ loadState' = "Running"

\* the promises among ps that are still pending after this step
StillPending(ps) ==
    {x \in ps : IF x = Loader THEN loadState' # "Idle"
                 ELSE x \in DOMAIN upd' /\ upd'[x].runner # "Idle"}

\* a step of the ConfigWatcher, its updaters or its environment while
\* destructor() may be waiting; failed: an execution of the loader throws in
\* this step. Promise.all rejects when the loader's promise does, which it does
\* when an execution of the busy period it waited for has failed
WhileWaiting(failed) ==
    /\ loadBusyFailed' = IF loadState' = "Idle" THEN FALSE ELSE (loadBusyFailed \/ failed)
    /\ loadReturns' = IF LoaderStarts THEN cwDestructed
                      ELSE IF loadState' = "Idle" THEN FALSE ELSE loadReturns
    /\ IF cwDtor # "waiting"
       THEN UNCHANGED <<cwDtor, cwAwaits>>
       ELSE IF Loader \in cwAwaits /\ loadState' = "Idle" /\ (loadBusyFailed \/ failed)
       THEN cwDtor' = "rejected" /\ cwAwaits' = {}
       ELSE /\ cwAwaits' = StillPending(cwAwaits)
            /\ cwDtor' = IF StillPending(cwAwaits) = {} THEN "tearing" ELSE "waiting"
    /\ UNCHANGED <<cwDestructed, cwWatch, cwCalls, cwThrew>>
    /\ UNCHANGED <<updaterVars, cacheVars, contentVars, intervalVars, transformVars, watchVars, sourceVars, teardownVars>>

\* no destructor() call has been made on the ConfigWatcher
SuperTeardownRest ==
    /\ cwDestructed = FALSE
    /\ cwDtor = "none"
    /\ cwAwaits = {}
    /\ cwWatch = TRUE
    /\ loadBusyFailed = FALSE
    /\ loadReturns = FALSE
    /\ cwCalls = 0
    /\ cwThrew = FALSE

\* new ConfigWatcher(path, cache): run() is called and the file is watched
SuperStart ==
    /\ configFile \in DocNames
    /\ loadState = "Running"
    /\ configEvents = {}
    /\ updaters = {}
    /\ upd = [id \in {} |-> 0]
    /\ destFile = [d \in Dests |-> "none"]
    /\ generation = 0
    /\ changes = 0
    /\ loadedDoc = "none"
    /\ lastLoad = "none"

\* no ConfigWatcher is looked at
SuperRest ==
    /\ configFile = "A"
    /\ loadState = "Idle"
    /\ configEvents = {}
    /\ updaters = {}
    /\ upd = [id \in {} |-> 0]
    /\ destFile = [d \in Dests |-> "none"]
    /\ generation = 0
    /\ changes = 0
    /\ loadedDoc = "none"
    /\ lastLoad = "none"

\* ------------------------------------------------------------ specification
\* The state when `new AdsTxtUpdater(...)` returns: run() has started the first
\* execution, #reloadWatchers() has armed the watchers, the timer is set.
UpdaterStart ==
    /\ runnerState = "Running"
    /\ busyFailed = FALSE
    /\ waiters = {}
    /\ cycles = StartWork(<< >>)
    /\ \E f \in {Absent, External}, d \in BOOLEAN :
          /\ (f.kind # "absent" => d)
          /\ file = f
          /\ dirExists = d
          /\ watchers = reloadWatchers(f, d)
          /\ opened = rearm(NoWatchers, f, d)
    /\ events = {}
    /\ now = 0
    /\ fetchResults \in InitResults
    /\ tampers = 0
    /\ perturbed = FALSE
    /\ ioFails = 0
    /\ trigDuring = 0
    /\ prevTrig = 0
    /\ busyExecs = 1
    /\ busyCoal = 0
    /\ settled = NoSettle
    /\ failSeen = FALSE
    /\ sourcesAge = "initial"

\* an updater that has gone idle with its file written, while the cache is studied
UpdaterAtRest ==
    /\ runnerState = "Idle"
    /\ busyFailed = FALSE
    /\ waiters = {}
    /\ cycles = << >>
    /\ file = Absent
    /\ dirExists = FALSE
    /\ watchers = reloadWatchers(Absent, FALSE)
    /\ opened = rearm(NoWatchers, Absent, FALSE)
    /\ events = {}
    /\ now = 0
    /\ fetchResults \in InitResults
    /\ tampers = 0
    /\ perturbed = FALSE
    /\ ioFails = 0
    /\ trigDuring = 0
    /\ prevTrig = 0
    /\ busyExecs = 1
    /\ busyCoal = 0
    /\ settled = NoSettle
    /\ failSeen = FALSE
    /\ sourcesAge = "initial"

Init == TeardownRest /\ SuperTeardownRest /\ UpdaterStart /\ CacheStart /\ ContentRest /\ IntervalRest /\ SuperRest /\ TransformRest /\ SourceRest /\ WatchRest

Next ==
    \/ TimerTick /\ UNCHANGED <<cacheVars, contentVars, intervalVars, superVars, transformVars, watchVars, sourceVars, teardownVars, superTeardownVars>>
    \/ WaitForPromises /\ UNCHANGED <<cacheVars, contentVars, intervalVars, superVars, transformVars, watchVars, sourceVars, teardownVars, superTeardownVars>>
    \/ \E e \in events : Deliver(e) /\ UNCHANGED <<cacheVars, contentVars, intervalVars, superVars, transformVars, watchVars, sourceVars, teardownVars, superTeardownVars>>
    \/ \E i \in 1..Len(cycles) : FetchDone(i) /\ UNCHANGED <<cacheVars, contentVars, intervalVars, superVars, transformVars, watchVars, sourceVars, teardownVars, superTeardownVars>>
    \/ \E i \in 1..Len(cycles) : ReadDone(i) /\ UNCHANGED <<cacheVars, contentVars, intervalVars, superVars, transformVars, watchVars, sourceVars, teardownVars, superTeardownVars>>
    \/ \E i \in 1..Len(cycles) : ReadFail(i) /\ UNCHANGED <<cacheVars, contentVars, intervalVars, superVars, transformVars, watchVars, sourceVars, teardownVars, superTeardownVars>>
    \/ \E i \in 1..Len(cycles) : EnsureDone(i) /\ UNCHANGED <<cacheVars, contentVars, intervalVars, superVars, transformVars, watchVars, sourceVars, teardownVars, superTeardownVars>>
    \/ \E i \in 1..Len(cycles) : WriteDone(i) /\ UNCHANGED <<cacheVars, contentVars, intervalVars, superVars, transformVars, watchVars, sourceVars, teardownVars, superTeardownVars>>
    \/ \E i \in 1..Len(cycles) : WriteFail(i) /\ UNCHANGED <<cacheVars, contentVars, intervalVars, superVars, transformVars, watchVars, sourceVars, teardownVars, superTeardownVars>>
    \/ \E i \in 1..Len(cycles) : AfterWrite(i) /\ UNCHANGED <<cacheVars, contentVars, intervalVars, superVars, transformVars, watchVars, sourceVars, teardownVars, superTeardownVars>>
    \/ ExternalModify /\ UNCHANGED <<cacheVars, contentVars, intervalVars, superVars, transformVars, watchVars, sourceVars, teardownVars, superTeardownVars>>
    \/ ExternalDelete /\ UNCHANGED <<cacheVars, contentVars, intervalVars, superVars, transformVars, watchVars, sourceVars, teardownVars, superTeardownVars>>
    \/ ExternalDeleteDir /\ UNCHANGED <<cacheVars, contentVars, intervalVars, superVars, transformVars, watchVars, sourceVars, teardownVars, superTeardownVars>>
    \/ ClockTick /\ UNCHANGED <<cacheVars, contentVars, intervalVars, superVars, transformVars, watchVars, sourceVars, teardownVars, superTeardownVars>>

Spec == Init /\ [][Next]_vars

\* the updater without waitForPromises callers
LiveNext ==
    \/ TimerTick /\ UNCHANGED <<cacheVars, contentVars, intervalVars, superVars, transformVars, watchVars, sourceVars, teardownVars, superTeardownVars>>
    \/ \E e \in events : Deliver(e) /\ UNCHANGED <<cacheVars, contentVars, intervalVars, superVars, transformVars, watchVars, sourceVars, teardownVars, superTeardownVars>>
    \/ \E i \in 1..Len(cycles) : FetchDone(i) /\ UNCHANGED <<cacheVars, contentVars, intervalVars, superVars, transformVars, watchVars, sourceVars, teardownVars, superTeardownVars>>
    \/ \E i \in 1..Len(cycles) : ReadDone(i) /\ UNCHANGED <<cacheVars, contentVars, intervalVars, superVars, transformVars, watchVars, sourceVars, teardownVars, superTeardownVars>>
    \/ \E i \in 1..Len(cycles) : ReadFail(i) /\ UNCHANGED <<cacheVars, contentVars, intervalVars, superVars, transformVars, watchVars, sourceVars, teardownVars, superTeardownVars>>
    \/ \E i \in 1..Len(cycles) : EnsureDone(i) /\ UNCHANGED <<cacheVars, contentVars, intervalVars, superVars, transformVars, watchVars, sourceVars, teardownVars, superTeardownVars>>
    \/ \E i \in 1..Len(cycles) : WriteDone(i) /\ UNCHANGED <<cacheVars, contentVars, intervalVars, superVars, transformVars, watchVars, sourceVars, teardownVars, superTeardownVars>>
    \/ \E i \in 1..Len(cycles) : WriteFail(i) /\ UNCHANGED <<cacheVars, contentVars, intervalVars, superVars, transformVars, watchVars, sourceVars, teardownVars, superTeardownVars>>
    \/ \E i \in 1..Len(cycles) : AfterWrite(i) /\ UNCHANGED <<cacheVars, contentVars, intervalVars, superVars, transformVars, watchVars, sourceVars, teardownVars, superTeardownVars>>
    \/ ExternalModify /\ UNCHANGED <<cacheVars, contentVars, intervalVars, superVars, transformVars, watchVars, sourceVars, teardownVars, superTeardownVars>>
    \/ ExternalDelete /\ UNCHANGED <<cacheVars, contentVars, intervalVars, superVars, transformVars, watchVars, sourceVars, teardownVars, superTeardownVars>>
    \/ ExternalDeleteDir /\ UNCHANGED <<cacheVars, contentVars, intervalVars, superVars, transformVars, watchVars, sourceVars, teardownVars, superTeardownVars>>
    \/ ClockTick /\ UNCHANGED <<cacheVars, contentVars, intervalVars, superVars, transformVars, watchVars, sourceVars, teardownVars, superTeardownVars>>

\* a step of a cycle in flight: the event loop resumes every pending await
CycleStep ==
    \E i \in 1..Len(cycles) :
        (FetchDone(i) \/ ReadDone(i) \/ ReadFail(i) \/ EnsureDone(i) \/ WriteDone(i)
            \/ WriteFail(i) \/ AfterWrite(i)) /\ UNCHANGED <<cacheVars, contentVars, intervalVars, superVars, transformVars, watchVars, sourceVars, teardownVars, superTeardownVars>>

\* setInterval keeps firing, watcher loops consume their events, awaits resume
Fairness ==
    /\ WF_vars(TimerTick /\ UNCHANGED <<cacheVars, contentVars, intervalVars, superVars, transformVars, watchVars, sourceVars, teardownVars, superTeardownVars>>)
    /\ WF_vars(\E e \in events : Deliver(e) /\ UNCHANGED <<cacheVars, contentVars, intervalVars, superVars, transformVars, watchVars, sourceVars, teardownVars, superTeardownVars>>)
    /\ WF_vars(CycleStep)

LiveSpec == Init /\ [][LiveNext]_vars /\ Fairness

CacheInit == TeardownRest /\ SuperTeardownRest /\ UpdaterAtRest /\ CacheStart /\ ContentRest /\ IntervalRest /\ SuperRest /\ TransformRest /\ SourceRest /\ WatchRest

CacheNext ==
    \/ \E u \in Urls, t \in TTLs : fetchAdsTxt(u, t) /\ UNCHANGED <<contentVars, intervalVars, superVars, transformVars, watchVars, sourceVars, teardownVars, superTeardownVars>>
    \/ \E i \in 1..Len(calls), c \in Texts : FetchOk(i, c) /\ UNCHANGED <<contentVars, intervalVars, superVars, transformVars, watchVars, sourceVars, teardownVars, superTeardownVars>>
    \/ \E i \in 1..Len(calls) : FetchNotOk(i) /\ UNCHANGED <<contentVars, intervalVars, superVars, transformVars, watchVars, sourceVars, teardownVars, superTeardownVars>>
    \/ \E i \in 1..Len(calls) : FetchTypeError(i) /\ UNCHANGED <<contentVars, intervalVars, superVars, transformVars, watchVars, sourceVars, teardownVars, superTeardownVars>>
    \/ \E i \in 1..Len(calls) : FetchOtherError(i) /\ UNCHANGED <<contentVars, intervalVars, superVars, transformVars, watchVars, sourceVars, teardownVars, superTeardownVars>>
    \/ \E i \in 1..Len(calls) : TextDone(i) /\ UNCHANGED <<contentVars, intervalVars, superVars, transformVars, watchVars, sourceVars, teardownVars, superTeardownVars>>
    \/ \E i \in 1..Len(calls) : TextFail(i) /\ UNCHANGED <<contentVars, intervalVars, superVars, transformVars, watchVars, sourceVars, teardownVars, superTeardownVars>>
    \/ CacheTick /\ UNCHANGED <<contentVars, intervalVars, superVars, transformVars, watchVars, sourceVars, teardownVars, superTeardownVars>>

CacheSpec == CacheInit /\ [][CacheNext]_vars

\* an updater with its timer whose sources change once, and nothing else
PeriodicNext ==
    \/ TimerTick /\ UNCHANGED <<cacheVars, contentVars, intervalVars, superVars, transformVars, watchVars, sourceVars, teardownVars, superTeardownVars>>
    \/ SourcesChange /\ UNCHANGED <<cacheVars, contentVars, intervalVars, superVars, transformVars, watchVars, sourceVars, teardownVars, superTeardownVars>>
    \/ ClockTick /\ UNCHANGED <<cacheVars, contentVars, intervalVars, superVars, transformVars, watchVars, sourceVars, teardownVars, superTeardownVars>>
    \/ \E e \in events : Deliver(e) /\ UNCHANGED <<cacheVars, contentVars, intervalVars, superVars, transformVars, watchVars, sourceVars, teardownVars, superTeardownVars>>
    \/ \E i \in 1..Len(cycles) : FetchDone(i) /\ UNCHANGED <<cacheVars, contentVars, intervalVars, superVars, transformVars, watchVars, sourceVars, teardownVars, superTeardownVars>>
    \/ \E i \in 1..Len(cycles) : ReadDone(i) /\ UNCHANGED <<cacheVars, contentVars, intervalVars, superVars, transformVars, watchVars, sourceVars, teardownVars, superTeardownVars>>
    \/ \E i \in 1..Len(cycles) : EnsureDone(i) /\ UNCHANGED <<cacheVars, contentVars, intervalVars, superVars, transformVars, watchVars, sourceVars, teardownVars, superTeardownVars>>
    \/ \E i \in 1..Len(cycles) : WriteDone(i) /\ UNCHANGED <<cacheVars, contentVars, intervalVars, superVars, transformVars, watchVars, sourceVars, teardownVars, superTeardownVars>>
    \/ \E i \in 1..Len(cycles) : AfterWrite(i) /\ UNCHANGED <<cacheVars, contentVars, intervalVars, superVars, transformVars, watchVars, sourceVars, teardownVars, superTeardownVars>>

PeriodicSpec == Init /\ [][PeriodicNext]_vars /\ Fairness

ContentInit == TeardownRest /\ SuperTeardownRest /\ UpdaterAtRest /\ CacheStart /\ ContentStart /\ IntervalRest /\ SuperRest /\ TransformRest /\ SourceRest /\ WatchRest

ContentNext ==
    \/ \E i \in 1..Len(cfgSources) : Settle(i) /\ UNCHANGED <<updaterVars, cacheVars, intervalVars, superVars, transformVars, watchVars, sourceVars, teardownVars, superTeardownVars>>
    \/ AssembleContent /\ UNCHANGED <<updaterVars, cacheVars, intervalVars, superVars, transformVars, watchVars, sourceVars, teardownVars, superTeardownVars>>

ContentSpec == ContentInit /\ [][ContentNext]_vars

IntervalInit == TeardownRest /\ SuperTeardownRest /\ UpdaterAtRest /\ CacheStart /\ ContentRest /\ IntervalStart /\ SuperRest /\ TransformRest /\ SourceRest /\ WatchRest

IntervalNext == ParseInterval /\ UNCHANGED <<updaterVars, cacheVars, contentVars, superVars, transformVars, watchVars, sourceVars, teardownVars, superTeardownVars>>

IntervalSpec == IntervalInit /\ [][IntervalNext]_vars

SupervisorInit == TeardownRest /\ SuperTeardownRest /\ UpdaterAtRest /\ CacheStart /\ ContentRest /\ IntervalRest /\ SuperStart /\ TransformRest /\ SourceRest /\ WatchRest

SupervisorNext ==
    \/ \E v \in DocNames \cup {"malformed", "missing"} : ConfigChange(v) /\ UNCHANGED <<updaterVars, cacheVars, contentVars, intervalVars, transformVars, watchVars, sourceVars, teardownVars, superTeardownVars>>
    \/ \E k \in configEvents : ConfigDeliver(k) /\ UNCHANGED <<updaterVars, cacheVars, contentVars, intervalVars, transformVars, watchVars, sourceVars, teardownVars, superTeardownVars>>
    \/ LoadReadFails /\ UNCHANGED <<updaterVars, cacheVars, contentVars, intervalVars, transformVars, watchVars, sourceVars, teardownVars, superTeardownVars>>
    \/ LoadParseFails /\ UNCHANGED <<updaterVars, cacheVars, contentVars, intervalVars, transformVars, watchVars, sourceVars, teardownVars, superTeardownVars>>
    \/ LoadDone /\ UNCHANGED <<updaterVars, cacheVars, contentVars, intervalVars, transformVars, watchVars, sourceVars, teardownVars, superTeardownVars>>
    \/ \E id \in DOMAIN upd : \E k \in upd[id].pending : UpdaterDeliver(id, k) /\ UNCHANGED <<updaterVars, cacheVars, contentVars, intervalVars, transformVars, watchVars, sourceVars, teardownVars, superTeardownVars>>
    \/ \E id \in DOMAIN upd : UpdaterTimer(id) /\ UNCHANGED <<updaterVars, cacheVars, contentVars, intervalVars, transformVars, watchVars, sourceVars, teardownVars, superTeardownVars>>
    \/ \E id \in DOMAIN upd : UpdaterRead(id) /\ UNCHANGED <<updaterVars, cacheVars, contentVars, intervalVars, transformVars, watchVars, sourceVars, teardownVars, superTeardownVars>>
    \/ \E id \in DOMAIN upd : UpdaterWrite(id) /\ UNCHANGED <<updaterVars, cacheVars, contentVars, intervalVars, transformVars, watchVars, sourceVars, teardownVars, superTeardownVars>>
    \/ \E id \in DOMAIN upd : UpdaterRearm(id) /\ UNCHANGED <<updaterVars, cacheVars, contentVars, intervalVars, transformVars, watchVars, sourceVars, teardownVars, superTeardownVars>>

SupervisorSpec == SupervisorInit /\ [][SupervisorNext]_vars

SupervisorTeardownNext ==
    \/ ConfigWatcherDestructor /\ UNCHANGED <<updaterVars, cacheVars, contentVars, intervalVars, transformVars, watchVars, sourceVars, teardownVars>>
    \/ TearDownNext /\ UNCHANGED <<updaterVars, cacheVars, contentVars, intervalVars, transformVars, watchVars, sourceVars, teardownVars>>
    \/ TearDownDone /\ UNCHANGED <<updaterVars, cacheVars, contentVars, intervalVars, transformVars, watchVars, sourceVars, teardownVars>>
    \/ LoadReturns /\ WhileWaiting(FALSE)
    \/ \E v \in DocNames \cup {"malformed", "missing"} : ConfigChange(v) /\ WhileWaiting(FALSE)
    \/ \E k \in configEvents : ConfigDeliver(k) /\ WhileWaiting(FALSE)
    \/ LoadReadFails /\ WhileWaiting(TRUE)
    \/ LoadParseFails /\ WhileWaiting(TRUE)
    \/ LoadDone /\ WhileWaiting(FALSE)
    \/ \E id \in DOMAIN upd : \E k \in upd[id].pending : UpdaterDeliver(id, k) /\ WhileWaiting(FALSE)
    \/ \E id \in DOMAIN upd : UpdaterTimer(id) /\ WhileWaiting(FALSE)
    \/ \E id \in DOMAIN upd : UpdaterRead(id) /\ WhileWaiting(FALSE)
    \/ \E id \in DOMAIN upd : UpdaterWrite(id) /\ WhileWaiting(FALSE)
    \/ \E id \in DOMAIN upd : UpdaterRearm(id) /\ WhileWaiting(FALSE)

SupervisorTeardownSpec == SupervisorInit /\ [][SupervisorTeardownNext]_vars

\* the ConfigWatcher with its destructor() and with documents that parse but
\* hold an entry no updater can be constructed from
ReloadNext ==
    \/ ConfigWatcherDestructor /\ UNCHANGED <<updaterVars, cacheVars, contentVars, intervalVars, transformVars, watchVars, sourceVars, teardownVars>>
    \/ TearDownNext /\ UNCHANGED <<updaterVars, cacheVars, contentVars, intervalVars, transformVars, watchVars, sourceVars, teardownVars>>
    \/ TearDownDone /\ UNCHANGED <<updaterVars, cacheVars, contentVars, intervalVars, transformVars, watchVars, sourceVars, teardownVars>>
    \/ LoadReturns /\ WhileWaiting(FALSE)
    \/ \E v \in DocNames \cup BrokenDocNames \cup {"malformed", "missing"} : ConfigChange(v) /\ WhileWaiting(FALSE)
    \/ \E k \in configEvents : ConfigDeliver(k) /\ WhileWaiting(FALSE)
    \/ LoadReadFails /\ WhileWaiting(TRUE)
    \/ LoadParseFails /\ WhileWaiting(TRUE)
    \/ LoadConstructFails /\ WhileWaiting(TRUE)
    \/ LoadDone /\ WhileWaiting(FALSE)
    \/ \E id \in DOMAIN upd : \E k \in upd[id].pending : UpdaterDeliver(id, k) /\ WhileWaiting(FALSE)
    \/ \E id \in DOMAIN upd : UpdaterTimer(id) /\ WhileWaiting(FALSE)
    \/ \E id \in DOMAIN upd : UpdaterRead(id) /\ WhileWaiting(FALSE)
    \/ \E id \in DOMAIN upd : UpdaterWrite(id) /\ WhileWaiting(FALSE)
    \/ \E id \in DOMAIN upd : UpdaterRearm(id) /\ WhileWaiting(FALSE)

ReloadSpec == SupervisorInit /\ [][ReloadNext]_vars

TeardownNext ==
    \/ destructor /\ UNCHANGED <<cacheVars, contentVars, intervalVars, superVars, transformVars, watchVars, sourceVars, superTeardownVars>>
    \/ DestructorResumes /\ UNCHANGED <<cacheVars, contentVars, intervalVars, superVars, transformVars, watchVars, sourceVars, superTeardownVars>>
    \/ \E i \in 1..Len(cycles) : Returned(i) /\ Meanwhile
    \/ TimerTick /\ Meanwhile
    \/ WaitForPromises /\ Meanwhile
    \/ \E e \in events : Deliver(e) /\ Meanwhile
    \/ \E i \in 1..Len(cycles) : FetchDone(i) /\ Meanwhile
    \/ \E i \in 1..Len(cycles) : ReadDone(i) /\ Meanwhile
    \/ \E i \in 1..Len(cycles) : ReadFail(i) /\ Meanwhile
    \/ \E i \in 1..Len(cycles) : EnsureDone(i) /\ Meanwhile
    \/ \E i \in 1..Len(cycles) : WriteDone(i) /\ Meanwhile
    \/ \E i \in 1..Len(cycles) : WriteFail(i) /\ Meanwhile
    \/ \E i \in 1..Len(cycles) : AfterWrite(i) /\ Meanwhile
    \/ ExternalModify /\ Meanwhile
    \/ ExternalDelete /\ Meanwhile
    \/ ExternalDeleteDir /\ Meanwhile
    \/ ClockTick /\ Meanwhile

TeardownSpec == Init /\ [][TeardownNext]_vars

TransformInit == TeardownRest /\ SuperTeardownRest /\ UpdaterAtRest /\ CacheStart /\ ContentRest /\ IntervalRest /\ SuperRest /\ TransformStart /\ SourceRest /\ WatchRest

TransformNext == Transform /\ UNCHANGED <<updaterVars, cacheVars, contentVars, intervalVars, superVars, sourceVars, watchVars, teardownVars, superTeardownVars>>

TransformSpec == TransformInit /\ [][TransformNext]_vars

SourceInit == TeardownRest /\ SuperTeardownRest /\ UpdaterAtRest /\ CacheStart /\ ContentRest /\ IntervalRest /\ SuperRest /\ TransformRest /\ SourceRest /\ WatchRest

SourceNext ==
    \/ \E u \in Urls, period \in Periods : SourceFetch(u, period) /\ UNCHANGED <<contentVars, intervalVars, superVars, transformVars, watchVars, teardownVars, superTeardownVars>>
    \/ \E i \in 1..Len(calls), b \in Bodies : FetchOk(i, b) /\ UNCHANGED <<contentVars, intervalVars, superVars, transformVars, watchVars, sourceVars, teardownVars, superTeardownVars>>
    \/ \E i \in 1..Len(calls) : SourceFails(i) /\ UNCHANGED <<contentVars, intervalVars, superVars, transformVars, watchVars, teardownVars, superTeardownVars>>
    \/ \E i \in 1..Len(calls) : SourceText(i) /\ UNCHANGED <<contentVars, intervalVars, superVars, transformVars, watchVars, teardownVars, superTeardownVars>>
    \/ \E transform \in Transforms : SourceReturn(transform) /\ UNCHANGED <<contentVars, intervalVars, superVars, transformVars, watchVars, teardownVars, superTeardownVars>>
    \/ CacheTick /\ UNCHANGED <<contentVars, intervalVars, superVars, transformVars, watchVars, sourceVars, teardownVars, superTeardownVars>>

SourceSpec == SourceInit /\ [][SourceNext]_vars

WatchNext ==
    \/ \E w \in AllPaths, k \in Kinds, ps \in PathLists : Report(w, k, ps) /\ delivered' = NoEvent /\ UNCHANGED <<cacheVars, contentVars, intervalVars, superVars, transformVars, sourceVars, teardownVars, superTeardownVars>>
    \/ \E e \in events : Deliver(e) /\ delivered' = e /\ UNCHANGED <<cacheVars, contentVars, intervalVars, superVars, transformVars, sourceVars, teardownVars, superTeardownVars>>
    \/ \E i \in 1..Len(cycles) : FetchDone(i) /\ delivered' = NoEvent /\ UNCHANGED <<cacheVars, contentVars, intervalVars, superVars, transformVars, sourceVars, teardownVars, superTeardownVars>>
    \/ \E i \in 1..Len(cycles) : ReadDone(i) /\ delivered' = NoEvent /\ UNCHANGED <<cacheVars, contentVars, intervalVars, superVars, transformVars, sourceVars, teardownVars, superTeardownVars>>
    \/ \E i \in 1..Len(cycles) : EnsureDone(i) /\ delivered' = NoEvent /\ UNCHANGED <<cacheVars, contentVars, intervalVars, superVars, transformVars, sourceVars, teardownVars, superTeardownVars>>
    \/ \E i \in 1..Len(cycles) : WriteDone(i) /\ delivered' = NoEvent /\ UNCHANGED <<cacheVars, contentVars, intervalVars, superVars, transformVars, sourceVars, teardownVars, superTeardownVars>>
    \/ \E i \in 1..Len(cycles) : AfterWrite(i) /\ delivered' = NoEvent /\ UNCHANGED <<cacheVars, contentVars, intervalVars, superVars, transformVars, sourceVars, teardownVars, superTeardownVars>>

WatchSpec == Init /\ [][WatchNext]_vars

\* ------------------------------------------------------------------ claims
InFlight == Len(cycles)

\* cycles between the start of their read of the destination and the end of their write
InCritical == {i \in 1..Len(cycles) : cycles[i].pc \in {"read", "ensure", "write"}}

\* C1: at most one execution of the wrapped work is in flight at any time; a
\* run() issued while Running or RunningWithRerunPending starts no second one.
C1_AtMostOneInFlight == InFlight <= 1

\* run() was called twice or more during the execution that is still the only one
C1_Witness ==
    /\ runnerState = "RunningWithRerunPending"
    /\ trigDuring >= 2
    /\ InFlight = 1

\* C2: the run() calls made during one execution, however many, cause exactly
\* one further execution, started when that execution ends: an execution that
\* received none is followed by none, no call is lost, and a busy period counts
\* one execution more than the executions in it that received calls.
C2_Coalesced ==
    /\ (runnerState = "Running" => trigDuring = 0)
    /\ (runnerState = "RunningWithRerunPending" => trigDuring >= 1)
    /\ (runnerState = "Idle" => trigDuring = 0)
    /\ (busyExecs = 1 => prevTrig = 0)
    /\ (busyExecs >= 2 => prevTrig >= 1)
    /\ (busyExecs < MaxCount =>
            busyExecs = 1 + busyCoal - (IF trigDuring >= 1 THEN 1 ELSE 0))

\* two or more run() calls during the first execution, two executions, idle again
C2_Witness ==
    /\ runnerState = "Idle"
    /\ busyExecs = 2
    /\ prevTrig >= 2

\* C3: a waitForPromises() future settles only with the runner Idle and no
\* execution in flight, also when it was asked for during an execution.
C3_AwaitIdle ==
    settled.regs # {} => (settled.at = "Idle" /\ settled.inflight = 0)

\* futures asked for while Running and while a rerun was pending, settled
C3_Witness ==
    /\ settled.regs = {"Running", "RunningWithRerunPending"}
    /\ runnerState = "Idle"
    /\ busyExecs >= 2

\* C4: a failed execution does not wedge the runner: the runner is Idle exactly
\* when no execution is in flight, a busy period with a failure still ends only
\* with no run() call unserved, and the futures that waited through a busy
\* period are rejected exactly when an execution of it failed.
C4_FailureNotWedged ==
    /\ (runnerState = "Idle" <=> InFlight = 0)
    /\ (failSeen /\ runnerState = "Idle" => trigDuring = 0)
    /\ (failSeen /\ trigDuring >= 1 => runnerState = "RunningWithRerunPending")
    /\ (runnerState = "Idle" /\ settled.regs \ {"Idle"} # {} =>
            (settled.outcome = "rejected" <=> failSeen))

\* an execution failed with a rerun pending; the rerun has been started, and
\* a future is waiting for the busy period to end
C4_Witness ==
    /\ failSeen
    /\ runnerState = "Running"
    /\ busyExecs = 2
    /\ InFlight = 1
    /\ cycles[1].pc = "fetch"
    /\ waiters # {}

\* a step in which fetchAdsTxt(u, t) is called
Called(u, t) == nCalls' = nCalls + 1 /\ lastCall' = [url |-> u, ttl |-> t]

\* a step in which a network exchange ends with one of the outcomes
Ended(outcomes) == nDone' = nDone + 1 /\ lastDone'.outcome \in outcomes

\* C5: a call for a key whose entry satisfies now - fetchedAt < ttl returns
\* that entry's content with fresh: true, makes no network request and leaves
\* the cache unchanged; the comparison is strict, so at now - fetchedAt = ttl
\* the entry is not fresh and a request is made
C5_FreshHit ==
    [][\A u \in Urls, t \in TTLs :
        /\ (Called(u, t) /\ cache[u].has /\ clock - cache[u].fetchTime < t)
              => /\ ret' = [url |-> u, kind |-> "ok", fresh |-> TRUE, content |-> cache[u].content]
                 /\ netCalls' = netCalls
                 /\ calls' = calls
                 /\ cache' = cache
        /\ (Called(u, t) /\ cache[u].has /\ clock - cache[u].fetchTime = t)
              => /\ netCalls' = netCalls + 1
                 /\ ret' = ret]_vars

C5_Witness ==
    /\ ret.kind = "ok" /\ ret.fresh
    /\ lastCall.url = ret.url /\ lastCall.ttl = 2
    /\ cache[ret.url].has /\ clock - cache[ret.url].fetchTime = 1
    /\ netCalls = 1 /\ nCalls = 2 /\ calls = << >>

\* C6 as the specification states it: the entry stored on a 2xx response holds
\* the timestamp current when it is stored
C6_StoresCurrentTime ==
    [][Ended({"ok"}) => cache'[lastDone'.url].fetchTime = clock]_vars

\* C6: a first call for a key, and a call whose entry is not fresh under the
\* given ttl, makes a network request; on a 2xx response the cache stores an
\* entry with the response text and the timestamp taken when the request was
\* issued, and the call returns that text with fresh: true
C6_Refresh ==
    [][/\ \A u \in Urls, t \in TTLs :
            (Called(u, t) /\ ~(cache[u].has /\ clock - cache[u].fetchTime < t))
               => /\ netCalls' = netCalls + 1
                  /\ Len(calls') = Len(calls) + 1
                  /\ calls'[Len(calls')].url = u
                  /\ calls'[Len(calls')].fetchTime = clock
       /\ Ended({"ok"})
            => /\ cache' = [cache EXCEPT ![lastDone'.url] =
                              [has |-> TRUE, content |-> lastDone'.text, fetchTime |-> lastDone'.issuedAt]]
               /\ ret' = [url |-> lastDone'.url, kind |-> "ok", fresh |-> TRUE, content |-> lastDone'.text]]_vars

C6_Witness ==
    /\ lastDone.outcome = "ok" /\ lastDone.had /\ lastDone.prior # lastDone.text
    /\ cache[lastDone.url].content = lastDone.text
    /\ cache[lastDone.url].fetchTime = lastDone.issuedAt
    /\ lastDone.issuedAt >= 1 /\ clock > lastDone.issuedAt
    /\ ret.fresh /\ ret.content = lastDone.text /\ ret.url = lastDone.url

\* C7: when the network fetch for a key fails, with a transport failure or a
\* non-2xx response, and the call found a prior entry for the key, the call
\* returns the prior content with fresh: false and leaves the cache unchanged
C7_StaleFallback ==
    [][(Ended({"typeError", "status", "bodyError"}) /\ lastDone'.had)
          => /\ ret' = [url |-> lastDone'.url, kind |-> "ok", fresh |-> FALSE, content |-> lastDone'.prior]
             /\ cache' = cache]_vars

\* C8: when the network fetch for a key fails and no entry for the key was ever
\* stored, the call fails with the error that names the key and the cache still
\* has no entry for the key
C8_HardFailure ==
    [][(Ended({"typeError", "status", "bodyError"}) /\ ~cache[lastDone'.url].has)
          => /\ ret' = [url |-> lastDone'.url, kind |-> "FetchFailed", fresh |-> FALSE, content |-> ""]
             /\ ~cache'[lastDone'.url].has]_vars

\* C9: no two rebuild cycles of the updater are at once between reading the
\* destination and finishing their write.
C9_CyclesSerialized == Cardinality(InCritical) <= 1

\* a watch notification or timer tick arrived while a cycle was about to write
C9_Witness ==
    /\ runnerState = "RunningWithRerunPending"
    /\ InCritical # {}
    /\ \E i \in InCritical : cycles[i].pc = "write"

\* C10: whenever another party modifies or deletes the destination (or
\* deletes its parent directory) and no further external change follows, the
\* destination eventually holds the generated content again
C10_SnapBack ==
    \A k \in 1..MaxTamper :
        (tampers = k /\ ~Generated(file)) ~> (Generated(file) \/ tampers > k)

C10_Witness ==
    /\ perturbed /\ tampers = MaxTamper
    /\ Generated(file) /\ runnerState = "Idle"
    /\ watchers = WatchPaths

\* ---------------------------------------------------- generated content
RECURSIVE Pick(_, _, _)
\* the configured urls whose outcome is in outs, in configuration order
Pick(srcs, results, outs) ==
    IF srcs = << >> THEN << >>
    ELSE (IF Head(results) \in outs THEN <<Head(srcs)>> ELSE << >>) \o Pick(Tail(srcs), Tail(results), outs)

RECURSIVE Following(_, _)
\* the tokens of text that directly follow a token tok
Following(text, tok) ==
    IF Len(text) < 2 THEN << >>
    ELSE (IF Head(text) = tok THEN <<text[2]>> ELSE << >>) \o Following(Tail(text), tok)

\* the index of the first token tok of text, 0 when there is none
IndexOf(text, tok) ==
    IF \E i \in 1..Len(text) : text[i] = tok
    THEN CHOOSE i \in 1..Len(text) : text[i] = tok /\ \A j \in 1..(i - 1) : text[j] # tok
    ELSE 0

RECURSIVE Lines(_, _)
\* the lines of text, the line being read in cur
Lines(text, cur) ==
    IF text = << >> THEN (IF cur = << >> THEN {} ELSE {cur})
    ELSE IF Head(text) = "\n" THEN {cur} \cup Lines(Tail(text), << >>)
    ELSE Lines(Tail(text), Append(cur, Head(text)))

ErrorHead == "# Error: The following urls failed and are not included:"

WarningHead == "# Warning: The following urls failed, but were cached and are still included:"

SectionHead == "# Fetched from "

\* the block of text that starts at index from and ends before the next block
Block(text, from, nexts) ==
    LET later == {i \in nexts : i > from}
        to == IF later = {} THEN Len(text) ELSE (CHOOSE i \in later : \A j \in later : i <= j) - 1
    IN SubSeq(text, from, to)

\* C11: for every combination of sources that succeed, are served stale or
\* fail without a cache entry, all of them failing included, the call of
\* #getAdsTxtsContent returns a text and does not throw
C11_FailuresDoNotAbort ==
    content # NoContent => /\ content.kind = "text"
                           /\ Len(content.text) >= 2

C11_Witness ==
    /\ Len(cfgSources) = 3
    /\ \A i \in 1..3 : cfgOutcomes[i] = "failed"
    /\ content.kind = "text"
    /\ IndexOf(content.text, ErrorHead) > 0

C13_OneUrlPerLine ==
    content # NoContent =>
        \A i \in 1..Len(cfgSources) :
            cfgOutcomes[i] \in {"failed", "stale"}
                => <<"# - ", cfgSources[i]>> \in Lines(content.text, << >>)

\* C14: a cycle that finds in the destination the content an earlier cycle
\* generated from the same sources and configuration performs no write
C14_Idempotent ==
    \A i \in 1..Len(cycles) : cycles[i].pc \in {"ensure", "write"} => ~Generated(file)

\* the content generated from the changed sources is in the destination
NewInFile == \E t \in 0..MaxNow : file = getAdsTxtsContent(NewResults, t)

RECURSIVE Pow10(_)
Pow10(n) == IF n = 0 THEN 1 ELSE 10 * Pow10(n - 1)

\* the number a string of digits denotes
Denotes(digits) ==
    LET n == Len(digits)
        S[i \in 0..n] == IF i = 0 THEN 0 ELSE S[i - 1] + DigitVal(digits[i]) * Pow10(n - i)
    IN S[n]

\* str is <integer><unit>: one or more digits and then a unit
IsAmountUnit(str) ==
    /\ Len(str) >= 2
    /\ \A i \in 1..(Len(str) - 1) : IsDigit(str[i])
    /\ IsUnit(str[Len(str)])

\* str cannot be parsed: nowhere in it is a digit followed by a unit
Unparsable(str) == ~\E i \in 1..(Len(str) - 1) : IsDigit(str[i]) /\ IsUnit(str[i + 1])

\* C16: <integer><unit> yields integer x 1000, 60000, 3600000 or 86400000 ms
\* for the units s, m, h, d; an absent, empty or unparsable interval yields
\* 86400000 ms; the parsing always yields a period (all in units of 1000 ms)
C16_IntervalParsing ==
    interval.done =>
        LET str == updateInterval.str
        IN /\ interval.period \in Nat
           /\ (updateInterval.given /\ IsAmountUnit(str)) =>
                LET n == Denotes(SubSeq(str, 1, Len(str) - 1))
                    u == str[Len(str)]
                IN /\ u = "s" => interval.period = n
                   /\ u = "m" => interval.period = n * 60
                   /\ u = "h" => interval.period = n * 3600
                   /\ u = "d" => interval.period = n * 86400
           /\ (~updateInterval.given \/ Unparsable(str)) => interval.period = 86400

C16_Witness ==
    /\ updateInterval = [given |-> TRUE, str |-> <<"2", "h">>]
    /\ interval = [done |-> TRUE, period |-> 7200]

\* C17: a notification of kind access never triggers work. A step that takes an
\* access notification out of the buffer of the configuration watcher leaves the
\* loader as it is, and a step that takes one out of the buffer of an updater's
\* watcher is not a call of that updater's run().
C17_AccessNeverTriggers ==
    [][/\ ("access" \in configEvents /\ "access" \notin configEvents') => loadState' = loadState
       /\ \A id \in DOMAIN upd \cap DOMAIN upd' :
            ("access" \in upd[id].pending /\ "access" \notin upd'[id].pending)
                => ~(upd[id].runner # upd'[id].runner /\ upd'[id].runner = runState(upd[id].runner))]_vars

\* both watcher loops have skipped an access notification. The load has read
\* the configuration file, which told the configuration watcher of an access,
\* and that notification is gone from its buffer; the last cycle of the updater
\* read the destination and left it as it was, which told the updater's watcher
\* of an access, and that notification is gone from its buffer. The loader and
\* the updater are idle all the same.
C17_Witness ==
    /\ generation = 1
    /\ loadState = "Idle"
    /\ "access" \notin configEvents
    /\ \E id \in updaters :
            /\ upd[id].pc = "unchanged"
            /\ upd[id].runner = "Idle"
            /\ "access" \notin upd[id].pending

\* C18: in every state the updaters held are exactly one updater per entry of the
\* document the last successful load read, each made by that load from its entry
\* and none destructed; before the first load has succeeded none is held.
C18_HeldSet ==
    IF loadedDoc = "none"
    THEN updaters = {}
    ELSE /\ updaters = {<<generation, k>> : k \in 1..Len(Doc(loadedDoc))}
         /\ \A id \in updaters :
                /\ id \in DOMAIN upd
                /\ ~upd[id].destructed
                /\ upd[id].destination = Doc(loadedDoc)[id[2]].destination
                /\ upd[id].sources = Doc(loadedDoc)[id[2]].sources

\* the one-entry document was loaded and then replaced by the two-entry document
C18_Witness == loadedDoc = "B" /\ generation = 2 /\ Cardinality(updaters) = 2

\* C19: a load that ends because the configuration cannot be read or cannot be
\* parsed changes nothing about the updaters: the same updaters are held, none
\* of them becomes destructed, and each keeps its runner, its cycle and its
\* watchers as they were.
C19_FailedLoadKeepsUpdaters ==
    [][(/\ loadState' # loadState
        /\ loadState' = doneState(loadState)
        /\ lastLoad' \in {"readFailed", "parseFailed"})
            => (updaters' = updaters /\ upd' = upd /\ loadedDoc' = loadedDoc)]_vars

\* a configuration was loaded, the file became unparsable, and the reload has failed
C19_Witness ==
    /\ lastLoad = "parseFailed"
    /\ loadState = "Idle"
    /\ loadedDoc = "A"
    /\ updaters = {<<1, 1>>}
    /\ <<1, 1>> \in DOMAIN upd
    /\ ~upd[<<1, 1>>].destructed

\* nothing is in flight: the loader is idle, the updaters of earlier
\* configurations have drained, every held updater is idle, and no watcher has
\* a notification other than access left to take
Drained ==
    /\ loadState = "Idle"
    /\ configEvents \subseteq {"access"}
    /\ DOMAIN upd = updaters
    /\ \A id \in updaters : upd[id].runner = "Idle" /\ upd[id].pending \subseteq {"access"}

\* C20: when the configuration file was changed to a document that the reload
\* has loaded, and everything has drained, every destination of that document
\* holds the content of the sources the document gives for it.
C20_ReloadTakesEffect ==
    (changes > 0 /\ configFile \in DocNames /\ loadedDoc = configFile /\ Drained)
        => \A k \in 1..Len(Doc(loadedDoc)) :
                destFile[Doc(loadedDoc)[k].destination] = Doc(loadedDoc)[k].sources

\* C24 as the specification states it: a call for a key for which a network
\* request is already in flight makes no network request of its own
C24_FetchedOnce ==
    [][\A u \in Urls, t \in TTLs :
        (Called(u, t) /\ \E i \in 1..Len(calls) : calls[i].url = u) => netCalls' = netCalls]_vars

\* C24: the cache is keyed by the URL alone and serves every caller: when the
\* last network exchange that ended stored a response for a key, a call for the
\* key by any caller, made while less than its ttl has passed since that request
\* was issued, makes no network request and returns the stored text
C24_SharedEntry ==
    [][\A u \in Urls, t \in TTLs :
        (Called(u, t) /\ lastDone.outcome = "ok" /\ lastDone.url = u /\ clock - lastDone.issuedAt < t)
            => /\ netCalls' = netCalls
               /\ ret'.kind = "ok" /\ ret'.fresh /\ ret'.content = lastDone.text]_vars

\* two calls for one key, the second served from the entry the first stored
C24_Witness ==
    /\ nCalls = 2 /\ netCalls = 1 /\ nDone = 1 /\ calls = << >>
    /\ lastDone.outcome = "ok" /\ lastCall.url = lastDone.url
    /\ ret = [url |-> lastDone.url, kind |-> "ok", fresh |-> TRUE, content |-> lastDone.text]

\* C25: the cache changes only in a step in which a network exchange ends with
\* a 2xx response whose text was read, and then only the entry of that key,
\* which becomes the text of that response with the time of that request; a key
\* that has an entry keeps having one
C25_EntriesOnlyStored ==
    [][/\ cache' # cache =>
            /\ Ended({"ok"})
            /\ cache' = [cache EXCEPT ![lastDone'.url] =
                            [has |-> TRUE, content |-> lastDone'.text, fetchTime |-> lastDone'.issuedAt]]
       /\ \A u \in Urls : cache[u].has => cache'[u].has]_vars

\* an entry was replaced by a response while another request for the same key
\* is still in flight
C25_Witness ==
    /\ lastDone.outcome = "ok" /\ lastDone.had
    /\ cache[lastDone.url] = [has |-> TRUE, content |-> lastDone.text, fetchTime |-> lastDone.issuedAt]
    /\ \E i \in 1..Len(calls) : calls[i].url = lastDone.url

\* C26: for an empty source list #getAdsTxtsContent returns the one warning
\* comment line and nothing else (no generated-on header and so no time stamp,
\* no Error or Warning block, no section), and no fetch has been made or awaited
C26_EmptySources ==
    (cfgSources = << >> /\ content # NoContent) =>
        /\ content = [kind |-> "text", stamp |-> NoStamp,
                      text |-> <<"# Warning: The configuration file contains no sources urls.", "\n">>]
        /\ settleOrder = << >>

\* #getAdsTxtsContent has returned for a configuration without sources
C26_Witness == cfgSources = << >> /\ content.kind = "text"

\* a line of the key = value shape that is not a comment
Declares(line) == ~startsWith(line, "#") /\ KeyEnds(line) # {}

\* the key such a line declares: what stands before its first "="
DeclaredKey(line) == matchLazy(line).key

\* the lines strip_variables selects for deletion
Selected(line, options) ==
    /\ Declares(line)
    /\ options.kind \in {"true", "list"}
    /\ options.kind = "list" /\ options.names # << >> => includes(options.names, DeclaredKey(line))

\* C27: transformAdsTxt returns the lines of its input without the declaration
\* lines strip_variables selects, in their order: none when the option is absent
\* or false, every declaration when it is true or the empty list, and with a
\* list of names the declarations of those names; comment lines and lines not
\* of the key = value shape are kept
C27_StripsSelected ==
    tOut.done =>
        tOut.text = join(SelectSeq(split(tContent), LAMBDA line : ~Selected(line, tOptions)))

\* the same for texts in which no line has a second "=" that could end a key
C27_OneKeyEnd ==
    (tOut.done /\ \A k \in 1..Len(split(tContent)) :
                    \A p, q \in KeyEnds(split(tContent)[k]) : p = q) =>
        tOut.text = join(SelectSeq(split(tContent), LAMBDA line : ~Selected(line, tOptions)))

\* a named declaration was deleted and another line kept
C27_Reached ==
    /\ tOut.done /\ tOptions.kind = "list" /\ tOptions.names # << >>
    /\ Len(tOut.text) > 0 /\ Len(tOut.text) < Len(tContent)

\* execution i of the work ends in this step
Ends(i) == cycles' \in {Remove(cycles, i), StartWork(Remove(cycles, i))}

\* C28: a cycle that has read the destination goes on to write exactly when
\* what it read (absent when the file is missing) differs from the desired
\* content; when they are equal it ends without touching the file or the
\* watchers. The updater changes the file only in a cycle that found a
\* difference, the write stores the desired content, and the watchers are
\* re-armed in the step after the write and in no other step.
C28_WriteIffDiffers ==
    [][/\ \A i \in 1..Len(cycles) :
            /\ (cycles[i].pc = "read" /\ cycles' # cycles /\ ioFails' = ioFails) =>
                  IF file # cycles[i].desired
                  THEN cycles' = [cycles EXCEPT ![i].pc = "ensure"] /\ file' = file
                  ELSE Ends(i) /\ file' = file /\ dirExists' = dirExists /\ watchers' = watchers
            /\ (Len(cycles') = Len(cycles) /\ cycles'[i].pc = "ensure" /\ cycles[i].pc # "ensure") =>
                  cycles[i].pc = "read" /\ file # cycles[i].desired
            /\ (cycles[i].pc = "write" /\ cycles' # cycles /\ ioFails' = ioFails /\ dirExists) =>
                  /\ file' = cycles[i].desired
                  /\ watchers' = watchers
                  /\ cycles' = [cycles EXCEPT ![i].pc = "written"]
            /\ (cycles[i].pc = "written" /\ cycles' # cycles) =>
                  Ends(i) /\ file' = file /\ watchers' = reloadWatchers(file, dirExists)
       /\ (tampers' = tampers /\ file' # file) => \E i \in 1..Len(cycles) : cycles[i].pc \in {"ensure", "write"}
       /\ ~(watchers' \subseteq watchers) => \E i \in 1..Len(cycles) : cycles[i].pc = "written"]_vars

\* a busy period of two cycles has ended: the first wrote the file and re-armed
\* the watchers, the second read what the first wrote and left it alone
C28_Witness ==
    /\ runnerState = "Idle" /\ busyExecs = 2
    /\ tampers = 0 /\ ioFails = 0 /\ now = 0 /\ sourcesAge = "initial"
    /\ file = getAdsTxtsContent(fetchResults, 0)
    /\ watchers = WatchPaths

\* C29: a read that finds no file counts as absent content and the cycle goes
\* on to write; a read that fails otherwise ends the cycle at once, with the
\* file and the watchers as they were and the failure handed to the runner
\* (kept for the busy period when a rerun is pending, otherwise rejecting the
\* futures that wait for it); the runner then serves triggers as before: a
\* pending rerun starts at once, and a timer tick or watch event that finds the
\* runner idle after the failure starts a new cycle
C29_ReadErrors ==
    [][/\ \A i \in 1..Len(cycles) :
            /\ (cycles[i].pc = "read" /\ file.kind = "absent" /\ cycles' # cycles /\ ioFails' = ioFails) =>
                  cycles' = [cycles EXCEPT ![i].pc = "ensure"]
            /\ (cycles[i].pc = "read" /\ ioFails' = ioFails + 1) =>
                  /\ Ends(i)
                  /\ file' = file /\ dirExists' = dirExists /\ watchers' = watchers
                  /\ failSeen'
                  /\ IF runnerState = "RunningWithRerunPending"
                     THEN busyFailed' /\ runnerState' = "Running" /\ cycles' = StartWork(Remove(cycles, i))
                     ELSE /\ runnerState' = "Idle" /\ cycles' = Remove(cycles, i)
                          /\ waiters # {} => settled'.outcome = "rejected"
       /\ (runnerState = "Idle" /\ failSeen /\ runnerState' # "Idle") =>
             cycles' = StartWork(<< >>) /\ runnerState' = "Running"]_vars

\* after a failed execution the rerun has read a missing destination and goes
\* on to write it
C29_Witness ==
    /\ failSeen /\ ioFails = 1 /\ busyExecs = 2
    /\ Len(cycles) = 1 /\ cycles[1].pc = "ensure"
    /\ file.kind = "absent"

\* C30: at every moment every path holds at most one open watcher, the watched
\* paths are among the destination and its ancestors up to the root, and the
\* root, which always exists, is watched: no state lies between the closing of
\* the old watchers and the opening of the new ones. The updater changes its
\* watchers only in the step after a write, and that step leaves exactly one
\* watcher on each of those paths that exists.
C30_Watchers ==
    /\ [](/\ \A p \in AllPaths : opened[p] <= 1 /\ (opened[p] > 0 => p \in WatchPaths)
          /\ watchers = {p \in AllPaths : opened[p] > 0}
          /\ opened["root"] = 1)
    /\ [][(opened' # opened /\ tampers' = tampers) =>
            /\ \E i \in 1..Len(cycles) : cycles[i].pc = "written"
            /\ opened' = [p \in AllPaths |->
                            IF p \in WatchPaths /\ Exists(p, file, dirExists) THEN 1 ELSE 0]]_vars

\* a cycle has written the destination and re-armed the watchers: the
\* destination, its directory and the root hold one watcher each
C30_Witness ==
    /\ runnerState = "Idle" /\ tampers = 0
    /\ file = getAdsTxtsContent(fetchResults, now)
    /\ opened = [p \in AllPaths |-> IF p = "other" THEN 0 ELSE 1]

\* the runner starts an execution of the work in this step
Starts ==
    \/ runnerState = "Idle" /\ runnerState' # "Idle"
    \/ runnerState = "RunningWithRerunPending" /\ runnerState' = "Running"

\* cycle i goes through the step its position calls for
Advances(i) ==
    CASE cycles[i].pc = "fetch" ->
            cycles' = [cycles EXCEPT ![i] = [pc |-> "read", desired |-> getAdsTxtsContent(fetchResults, now)]]
      [] cycles[i].pc = "read" ->
            cycles' = [cycles EXCEPT ![i].pc = "ensure"] \/ Ends(i)
      [] cycles[i].pc = "ensure" ->
            cycles' = [cycles EXCEPT ![i].pc = "write"] \/ (Ends(i) /\ failSeen')
      [] cycles[i].pc = "write" ->
            (cycles' = [cycles EXCEPT ![i].pc = "written"] /\ file' = cycles[i].desired) \/ (Ends(i) /\ failSeen')
      [] cycles[i].pc = "written" ->
            Ends(i) /\ watchers' = reloadWatchers(file, dirExists)
      [] OTHER -> FALSE

\* C23: once destructor() has been called, every execution the runner starts
\* (a pending rerun, or one started by a timer tick or a watch notification)
\* returns at its first statement: it ends in its next step and leaves the
\* file, the directory and the watchers alone. A cycle in flight at the call
\* is not cut short: each of its steps is the one its position calls for. The
\* promise destructor() awaits settles only in a step that leaves the runner
\* idle with nothing in flight, and while destructor() has resumed or
\* returned, nothing but executions that return at once is in flight.
C23_TeardownStopsNewWork ==
    /\ [](dtor \in {"ready", "done"} => \A i \in 1..Len(cycles) : cycles[i].pc = "returned")
    /\ [][/\ (destructed /\ Starts) => cycles'[Len(cycles')].pc = "returned"
          /\ (dtor = "waiting" /\ dtor' # "waiting") => runnerState' = "Idle" /\ cycles' = << >>
          /\ \A i \in 1..Len(cycles) :
                /\ (cycles[i].pc = "returned" /\ cycles' # cycles) =>
                      /\ Ends(i)
                      /\ file' = file /\ dirExists' = dirExists
                      /\ watchers' = watchers /\ opened' = opened
                /\ (destructed /\ cycles[i].pc # "returned" /\ cycles' # cycles) => Advances(i)]_vars

\* destructor() was called during a cycle for which a rerun was or became
\* pending; the cycle has ended, the rerun has returned at its first statement,
\* and destructor() is still waiting
C23_Witness ==
    /\ destructed /\ dtor = "waiting"
    /\ busyExecs = 2
    /\ Len(cycles) = 1 /\ cycles[1].pc = "returned"

\* the ConfigWatcher holds nothing any more: no updater is held, every updater
\* it made is destructed (those still present are finishing their last cycle),
\* and the watcher of the configuration file is closed
TornDown == updaters = {} /\ (\A id \in DOMAIN upd : upd[id].destructed) /\ ~cwWatch

\* destructor() has returned while an updater that a load destructed is still
\* finishing its last cycle
C21_ReturnedEarly == cwDtor = "done" /\ DOMAIN upd # {}

\* C21: whenever a destructor() call on the ConfigWatcher has ended, whatever
\* state it was made in, the ConfigWatcher holds nothing any more; and a load
\* that starts after the call makes no updater
C21_DestructorTearsDown ==
    /\ [](cwDtor \in {"done", "rejected"} => TornDown)
    /\ [][loadReturns => generation' = generation /\ updaters' \subseteq updaters]_vars

\* the same for the calls that end by returning
C21_WhenReturned ==
    /\ [](cwDtor = "done" => TornDown)
    /\ [][loadReturns => generation' = generation /\ updaters' \subseteq updaters]_vars

\* destructor() was called during a load that went on to make two updaters, and
\* has returned
C21_Reached ==
    /\ cwDtor = "done" /\ generation = 2 /\ loadedDoc = "B" /\ TornDown

\* C22: a destructor() call on an updater or a ConfigWatcher that is already
\* destructed throws and changes nothing: no watcher is closed, no timer
\* cleared, no promise awaited, no work started, nothing held is let go
C22_SecondCallThrows ==
    [][/\ (dtorCalls' # dtorCalls /\ destructed) =>
            dtorThrew' /\ UNCHANGED <<updaterVars, destructed, dtor, timerArmed>>
       /\ (cwCalls' # cwCalls /\ cwDestructed) =>
            /\ cwThrew'
            /\ UNCHANGED <<superVars, cwDestructed, cwDtor, cwAwaits, cwWatch, loadBusyFailed, loadReturns>>]_vars

\* destructor() has been called a second time on an updater whose first call
\* still waits for the cycle in flight
C22_Witness ==
    /\ dtorThrew /\ dtorCalls = 2
    /\ dtor = "waiting"
    /\ Len(cycles) = 1 /\ cycles[1].pc = "write"
    /\ watchers # {} /\ timerArmed

\* destructor() has been called a second time on a ConfigWatcher whose first
\* call still waits for the load in flight
C22_SupervisorReached ==
    /\ cwThrew /\ cwCalls = 2
    /\ cwDtor = "waiting" /\ loadState # "Idle"
    /\ cwWatch /\ updaters # {}

\* the first cycle after construction has not yet touched the destination
BeforeFirstWrite ==
    /\ tampers = 0 /\ ioFails = 0 /\ busyExecs = 1
    /\ Len(cycles) = 1 /\ cycles[1].pc \in {"fetch", "read"}

\* C31: a path that does not exist when the watchers are armed is skipped: the
\* paths that exist are watched all the same and nothing fails. So after
\* construction exactly the existing ones among the destination and its
\* ancestors are watched, and the step that re-arms the watchers after a write
\* leaves a watcher on each of those paths that exists then, ends the cycle
\* without a failure and hands no failure to the runner.
C31_MissingPathSkipped ==
    /\ [](BeforeFirstWrite =>
            /\ \A p \in WatchPaths : opened[p] = IF Exists(p, file, dirExists) THEN 1 ELSE 0
            /\ ~failSeen /\ ~busyFailed)
    /\ [][\A i \in 1..Len(cycles) :
            (cycles[i].pc = "written" /\ cycles' # cycles) =>
                /\ \A p \in WatchPaths : Exists(p, file, dirExists) => opened'[p] = 1
                /\ \A p \in WatchPaths : ~Exists(p, file, dirExists) => opened'[p] = 0
                /\ Ends(i)
                /\ failSeen' = failSeen /\ busyFailed' \in {busyFailed, FALSE}
                /\ (waiters # {} /\ runnerState' = "Idle" /\ ~busyFailed) => settled'.outcome = "resolved"]_vars

\* the updater was constructed when neither the destination nor its directory
\* existed, so that only the root is watched; its first cycle has created and
\* written the file and is about to re-arm the watchers
C31_Witness ==
    /\ tampers = 0 /\ ioFails = 0 /\ busyExecs = 1
    /\ Len(cycles) = 1 /\ cycles[1].pc = "written"
    /\ file = cycles[1].desired /\ dirExists
    /\ opened = [p \in AllPaths |-> IF p = "root" THEN 1 ELSE 0]

\* updater id has read its destination and has not yet finished its write
InWrite(id) == upd[id].pc = "write"

\* C32: two updaters of different generations for one destination (the one a
\* reload has destructed, whose cycle is still in flight, and the one the
\* reload made in its place) are never both between their read of the
\* destination and the end of their write.
C32_WritesSerialized ==
    \A a, b \in DOMAIN upd :
        (a[1] < b[1] /\ upd[a].destination = upd[b].destination) => ~(InWrite(a) /\ InWrite(b))

\* the updater holds no resource any more: no watcher is open, no notification
\* is buffered and the timer is cleared
Released == watchers = {} /\ opened = NoWatchers /\ events = {} /\ ~timerArmed

\* C33: once the destructor() call on an updater has settled, by returning or
\* by rejecting because the cycle it waited for failed, the updater's watchers
\* are closed and its timer is cleared.
C33_DestructorReleases == dtor \in {"done", "rejected"} => Released

\* the same for the calls that return
C33_WhenReturned == dtor = "done" => Released

\* destructor() was called during a cycle, waited for it and has returned
C33_Reached == dtor = "done" /\ settled.outcome = "resolved" /\ settled.regs # {"Idle"} /\ Released

\* C34: for every key the time stamp of the stored entry never decreases,
\* however the fetchAdsTxt calls overlap: the response of a request issued
\* earlier never replaces an entry stored from a request issued later.
C34_TimestampNeverDecreases ==
    [][\A u \in Urls : cache[u].has => cache'[u].fetchTime >= cache[u].fetchTime]_vars

\* a load ends in this step because a constructor threw
ConstructFailed ==
    /\ loadState' = doneState(loadState) /\ loadState' # loadState
    /\ lastLoad' = "constructFailed" /\ generation' # generation

\* C35: a load whose document parses but holds an entry no updater can be
\* constructed from changes nothing about the held set: the updaters held
\* before are still held and none of them is destructed, and no updater the
\* failed load made exists outside the held set.
C35_ReloadAllOrNothing ==
    [][ConstructFailed =>
        /\ updaters \subseteq updaters'
        /\ \A id \in updaters : id \in DOMAIN upd' /\ ~upd'[id].destructed
        /\ (DOMAIN upd' \ DOMAIN upd) \subseteq updaters']_vars

\* the last part alone: every updater the failed load made is held
C35_NoneOutsideHeldSet ==
    [][ConstructFailed => (DOMAIN upd' \ DOMAIN upd) \subseteq updaters']_vars

\* a load of the document with the broken second entry has failed after it had
\* replaced the held updaters by the one it made from the first entry
C35_Reached ==
    /\ lastLoad = "constructFailed" /\ configFile = "C" /\ loadedDoc \in DocNames
    /\ updaters = {<<generation, 1>>}

\* destructor() has not been called on updater id in the updaters u: it is
\* there and not destructed (an updater that has drained after its destructor()
\* is no longer among them)
Fresh(u, id) == id \in DOMAIN u /\ ~u[id].destructed

\* destructor() is called on updater id in this step
DestructorCalledOn(id) == Fresh(upd, id) /\ ~Fresh(upd', id)

\* C36: the ConfigWatcher calls destructor() on an updater at most once. Its
\* two loops over #updaters, the one of a load and the one of its own
\* destructor(), find only updaters on which it has not been called: a load
\* lets go of the updaters it has destructed, destructor() starts its loop only
\* when no load is in flight but one that returns at its first statement, and
\* while the loop runs or after it no load destructs or makes an updater; the
\* loop takes one held updater at a time.
C36_DestructorCalledOnce ==
    [][/\ generation' # generation =>
            /\ \A id \in updaters : Fresh(upd, id)
            /\ \A id \in DOMAIN upd : DestructorCalledOn(id) => id \in updaters
            /\ \A id \in updaters' : Fresh(upd', id)
       /\ (cwDtor # "tearing" /\ cwDtor' = "tearing") =>
            /\ \A id \in updaters' : Fresh(upd', id)
            /\ (loadState' = "Idle" \/ loadReturns')
       /\ cwDtor \in {"tearing", "done"} =>
            /\ generation' = generation /\ updaters' \subseteq updaters
            /\ \A a, b \in DOMAIN upd :
                    (DestructorCalledOn(a) /\ DestructorCalledOn(b)) => (a = b /\ a \in updaters)]_vars

\* a reload has destructed the updater of the first configuration, and the
\* loop of destructor() has destructed the first of the two updaters the reload
\* made and waits for its cycle
C36_Witness ==
    /\ cwDtor = "tearing" /\ generation = 2 /\ loadedDoc = "B"
    /\ \E a, b \in updaters :
          /\ a # b /\ a \in DOMAIN upd /\ b \in DOMAIN upd
          /\ upd[a].destructed /\ ~upd[b].destructed

\* C37: a change another party makes to the destination after a cycle's write
\* and before that cycle re-arms the watchers is not lost: when the cycle has
\* re-armed, a rerun is pending or in flight, or a notification of the change
\* is still buffered in a watcher and will start a cycle.
C37_NoChangeLostOnRearm ==
    [][\A i \in 1..Len(cycles) :
        (cycles[i].pc = "written" /\ cycles' # cycles /\ file # cycles[i].desired) =>
            (runnerState' # "Idle" \/ \E e \in events' : Passes(e))]_vars


\* C38: a rebuild cycle calls fetchAdsTxt without a cacheDurationMs, whatever
\* the period of its destination: every call is judged against 3600000 ms, and
\* a call made less than one hour after the request of the entry the cache
\* holds for the url makes no network request
C38_DefaultDuration ==
    [][nCalls' = nCalls + 1 =>
         /\ lastCall'.ttl * msPerTick = 3600000
         /\ LET entry == cache[lastCall'.url]
            IN  (entry.has /\ (clock - entry.fetchTime) * msPerTick < 3600000)
                    => (netCalls' = netCalls /\ calls' = calls)]_vars

\* a call made half an hour after the request of the stored entry has returned
\* it as fresh although a destination of a shorter period exists
C38_Witness ==
    /\ nCalls = 2
    /\ netCalls = 1
    /\ cache[lastCall.url].has
    /\ clock - cache[lastCall.url].fetchTime = 1
    /\ result.kind = "ok"


\* the call that settles in this step fell back on the entry it found when it
\* began, and another call's response has replaced that entry since
Overtaken ==
    /\ nDone' = nDone + 1
    /\ lastDone'.outcome \in {"status", "typeError"}
    /\ cache[lastDone'.url].content # lastDone'.prior

\* C39: the transform an updater applies to the result of a fetch never changes
\* what the cache holds: the cache holds, for each url, the text of the last
\* 2xx response as it was received, the step that transforms a result leaves
\* every entry as it is, and a fetch, whether or not its caller transforms and
\* whatever was transformed before, returns the text of a response as it was
\* received, the last one unless the call fell back on an entry that was
\* replaced while it waited
C39_TransformLeavesCache ==
    /\ [](\A u \in Urls : cache[u].has => cache[u].content = responded[u])
    /\ [][result'.pc = "done" /\ result.pc = "returned" =>
            \A u \in Urls :
                /\ cache'[u].has = cache[u].has
                /\ cache'[u].fetchTime = cache[u].fetchTime
                /\ cache[u].has => cache'[u].content = cache[u].content]_vars
    /\ [][result'.pc = "returned" /\ result'.kind = "ok" =>
            /\ result'.content \in Bodies
            /\ ~Overtaken => result'.content = responded'[result'.url]]_vars

\* a result was transformed into another text and the cache still holds the
\* text received
C39_Witness ==
    /\ result.pc = "done"
    /\ result.kind = "ok"
    /\ cache[result.url].has
    /\ result.content # cache[result.url].content
    /\ cache[result.url].content = responded[result.url]
    /\ nCalls >= 2


C40_Triggered ==
    /\ delivered = [w |-> "file", kind |-> "modify", paths |-> <<"other", "file">>]
    /\ runnerState = "Running"
    /\ Len(cycles) = 1
    /\ cycles[1].pc = "fetch"
    /\ busyExecs = 1
    /\ trigDuring = 0

====
